---- MODULE Spec2Model ----
(***************************************************************************)
(* Model of the survey pipeline core of ms_dlreportes:                     *)
(*   - QRCodeService.extract_entrega_id / is_valid_entrega_id              *)
(*     (src/app/services/qr_service.py)                                    *)
(*   - EncuestasAPIClient.process_survey_template /                        *)
(*     format_responses_for_api (src/app/services/encuestas_client.py)     *)
(*   - the entry points process_survey_image, process_survey_with_known_id *)
(*     (src/app/services/survey_processor.py) and                          *)
(*     process_audio_survey_complete (src/app/routers/audio_router.py)     *)
(*   - the endpoint POST /ocr/encuesta (src/app/routers/ocr_router.py)     *)
(* Python strings are sequences of one-character strings; Python values    *)
(* (None, str, int, list) are tagged records; dicts are records whose      *)
(* DOMAIN is the set of keys they hold.                                    *)
(***************************************************************************)
EXTENDS Integers, Sequences, FiniteSets, TLC

VARIABLES
    pc,               \* position of the run that is modelled
    template_result,  \* result of get_entrega_preguntas (raw fetch result)
    survey_template,  \* result of process_survey_template
    ocr_responses,    \* extracted answers handed to format_responses_for_api
    api_responses,    \* outcome of format_responses_for_api
    qr_data,          \* decoded QR payload
    entrega_id,       \* outcome of extract_entrega_id; the entry id of a run
    entry,            \* the entry point that is running
    image_qrs,        \* QR symbols present in the image
    qr_result,        \* result of detect_qr_codes
    ocr_result,       \* result of the AI extraction
    save_result,      \* result of save_entrega_respuestas
    s3_url,           \* result of upload_audio_to_s3
    posted,           \* payloads handed to save_entrega_respuestas, in order
    calls,            \* stages entered and exceptions raised, in order
    result,           \* what the entry point returned
    file,             \* the upload received by POST /ocr/encuesta
    response,         \* the HTTP response of the endpoint
    other             \* the locals of the concurrent run that is not stepping

\* the variables of an orchestration run
runVars == <<entry, image_qrs, qr_result, ocr_result, save_result, s3_url,
             posted, calls, result>>

\* the variables of the HTTP endpoint
httpVars == <<file, response>>

vars == <<pc, template_result, survey_template, ocr_responses, api_responses,
          qr_data, entrega_id, entry, image_qrs, qr_result, ocr_result,
          save_result, s3_url, posted, calls, result, file, response, other>>

(***************************************************************************)
(* Characters and Python string primitives                                 *)
(***************************************************************************)

UpperChars ==
    <<"A", "B", "C", "D", "E", "F", "G", "H", "I", "J", "K", "L", "M", "N",
      "O", "P", "Q", "R", "S", "T", "U", "V", "W", "X", "Y", "Z", "Í">>

LowerChars ==
    <<"a", "b", "c", "d", "e", "f", "g", "h", "i", "j", "k", "l", "m", "n",
      "o", "p", "q", "r", "s", "t", "u", "v", "w", "x", "y", "z", "í">>

DigitChars == <<"0", "1", "2", "3", "4", "5", "6", "7", "8", "9">>

Range(f) == {f[i] : i \in DOMAIN f}

\* str.lower() on one character
LowerChar(c) ==
    IF \E i \in DOMAIN UpperChars : UpperChars[i] = c
    THEN LowerChars[CHOOSE i \in DOMAIN UpperChars : UpperChars[i] = c]
    ELSE c

\* str.lower()
Lower(s) == [i \in 1..Len(s) |-> LowerChar(s[i])]

\* the Python test  needle in hay  on strings
Contains(needle, hay) ==
    \E i \in 0..(Len(hay) - Len(needle)) :
        SubSeq(hay, i + 1, i + Len(needle)) = needle

\* str.isdigit()
IsDigit(s) == s # <<>> /\ \A i \in 1..Len(s) : s[i] \in Range(DigitChars)

DigitValue(c) == (CHOOSE i \in DOMAIN DigitChars : DigitChars[i] = c) - 1

RECURSIVE ParseInt(_)
\* int(s) for a string of digits
ParseInt(s) ==
    IF s = <<>> THEN 0
    ELSE 10 * ParseInt(SubSeq(s, 1, Len(s) - 1)) + DigitValue(s[Len(s)])

RECURSIVE IntToStr(_)
\* str(n) for a non-negative int
IntToStr(n) ==
    IF n < 10 THEN <<DigitChars[n + 1]>>
    ELSE IntToStr(n \div 10) \o <<DigitChars[(n % 10) + 1]>>

(***************************************************************************)
(* Python values: None, str, int, list                                     *)
(***************************************************************************)

PyNone == [t |-> "none", s |-> <<>>, n |-> 0, l |-> <<>>]
PyS(str) == [t |-> "str", s |-> str, n |-> 0, l |-> <<>>]
PyI(int) == [t |-> "int", s |-> <<>>, n |-> int, l |-> <<>>]
PyL(list) == [t |-> "list", s |-> <<>>, n |-> 0, l |-> list]

\* bool(v): None, "", 0 and [] are falsy
Truthy(v) ==
    CASE v.t = "none" -> FALSE
      [] v.t = "str" -> v.s # <<>>
      [] v.t = "int" -> v.n # 0
      [] v.t = "list" -> v.l # <<>>

RECURSIVE Repr(_)
RECURSIVE JoinRepr(_)
\* ", ".join(repr(x) for x in l)
JoinRepr(l) ==
    IF l = <<>> THEN <<>>
    ELSE IF Len(l) = 1 THEN Repr(l[1])
    ELSE Repr(l[1]) \o <<",", " ">> \o JoinRepr(Tail(l))

\* repr(v)
Repr(v) ==
    CASE v.t = "none" -> <<"N", "o", "n", "e">>
      [] v.t = "str" -> <<"'">> \o v.s \o <<"'">>
      [] v.t = "int" -> IntToStr(v.n)
      [] v.t = "list" -> <<"[">> \o JoinRepr(v.l) \o <<"]">>

\* str(v)
Str(v) == IF v.t = "str" THEN v.s ELSE Repr(v)

\* dict.get(k, default)
Get(d, k, default) == IF k \in DOMAIN d THEN d[k] ELSE default

\* index of the first i in 1..n with P(i), 0 when there is none
FirstIndex(P(_), n) ==
    IF \E i \in 1..n : P(i)
    THEN CHOOSE i \in 1..n : P(i) /\ \A j \in 1..(i - 1) : ~P(j)
    ELSE 0

\* outcome of a call: a returned value, or an exception raised
\* a local that has not been assigned yet
Pending == [pending |-> TRUE]

Return(v) == [raised |-> FALSE, value |-> v]
Raise == [raised |-> TRUE, value |-> <<>>]

(***************************************************************************)
(* EncuestasAPIClient.process_survey_template                              *)
(***************************************************************************)

EmptyDict == [k \in {} |-> PyNone]

\* one element of template['preguntas'][i]['opciones']
opcion_template(opcion) ==
    [id |-> Get(opcion, "id", PyNone),
     texto |-> Get(opcion, "texto", PyNone),
     valor |-> Get(opcion, "valor", PyNone)]

\* a variant that reads the type name from the question itself
pregunta_template_flat_tipo(pregunta) ==
    [id |-> Get(pregunta, "id", PyNone),
     texto |-> Get(pregunta, "texto", PyNone),
     orden |-> Get(pregunta, "orden", PyNone),
     obligatorio |-> Get(pregunta, "obligatorio", FALSE),
     tipo |-> Get(pregunta, "nombre", PyS(<<>>)),
     opciones |->
        LET raw == Get(pregunta, "opciones", <<>>)
        IN  [j \in 1..Len(raw) |-> opcion_template(raw[j])]]

\* one element of template['preguntas']
pregunta_template(pregunta) ==
    [id |-> Get(pregunta, "id", PyNone),
     texto |-> Get(pregunta, "texto", PyNone),
     orden |-> Get(pregunta, "orden", PyNone),
     obligatorio |-> Get(pregunta, "obligatorio", FALSE),
     tipo |-> Get(Get(pregunta, "tipo", EmptyDict), "nombre", PyS(<<>>)),
     opciones |->
        LET raw == Get(pregunta, "opciones", <<>>)
        IN  [j \in 1..Len(raw) |-> opcion_template(raw[j])]]

\* a variant that lists the questions in the opposite order
process_survey_template_reversed(preguntas_data) ==
    IF ~Get(preguntas_data, "success", FALSE) THEN PyNone
    ELSE
        LET preguntas == Get(preguntas_data, "preguntas", <<>>)
            encuesta_info == Get(preguntas_data, "encuesta", EmptyDict)
            n == Len(preguntas)
        IN  [entrega_id |-> Get(preguntas_data, "entrega_id", PyNone),
             encuesta |-> [id |-> Get(encuesta_info, "id", PyNone),
                           nombre |-> Get(encuesta_info, "nombre", PyNone),
                           descripcion |-> Get(encuesta_info, "descripcion", PyNone)],
             preguntas |-> [i \in 1..n |-> pregunta_template(preguntas[n + 1 - i])]]

process_survey_template(preguntas_data) ==
    IF ~Get(preguntas_data, "success", FALSE) THEN PyNone
    ELSE
        LET preguntas == Get(preguntas_data, "preguntas", <<>>)
            encuesta_info == Get(preguntas_data, "encuesta", EmptyDict)
        IN  [entrega_id |-> Get(preguntas_data, "entrega_id", PyNone),
             encuesta |-> [id |-> Get(encuesta_info, "id", PyNone),
                           nombre |-> Get(encuesta_info, "nombre", PyNone),
                           descripcion |-> Get(encuesta_info, "descripcion", PyNone)],
             preguntas |-> [i \in 1..Len(preguntas) |-> pregunta_template(preguntas[i])]]

(***************************************************************************)
(* EncuestasAPIClient.format_responses_for_api                             *)
(***************************************************************************)

S_abierta == <<"a", "b", "i", "e", "r", "t", "a">>
S_completar == <<"c", "o", "m", "p", "l", "e", "t", "a", "r">>

\* lines 206-212: index of the first template question whose id equals
\* pregunta_id, tried only for a truthy pregunta_id; 0 when not found
FindByPreguntaId(pregunta_ocr, preguntas) ==
    LET pregunta_id == Get(pregunta_ocr, "pregunta_id", PyNone)
    IN  IF Truthy(pregunta_id)
        THEN FirstIndex(LAMBDA i : preguntas[i].id = pregunta_id, Len(preguntas))
        ELSE 0

\* lines 215-220: index of the first template question whose orden equals
\* the answer's orden (None when the answer has none); 0 when not found
FindByOrden(pregunta_ocr, preguntas) ==
    LET orden_ocr == Get(pregunta_ocr, "orden", PyNone)
    IN  FirstIndex(LAMBDA i : preguntas[i].orden = orden_ocr, Len(preguntas))

\* a variant that tries the positional match before the identifier match
FindPreguntaTemplate_orden_first(pregunta_ocr, preguntas) ==
    LET by_orden == FindByOrden(pregunta_ocr, preguntas)
    IN  IF by_orden # 0 THEN by_orden ELSE FindByPreguntaId(pregunta_ocr, preguntas)

\* lines 203-220: the template question an answer resolves to (0: none)
FindPreguntaTemplate(pregunta_ocr, preguntas) ==
    LET by_id == FindByPreguntaId(pregunta_ocr, preguntas)
    IN  IF by_id # 0 THEN by_id ELSE FindByOrden(pregunta_ocr, preguntas)

\* lines 241-248: first option whose id equals the item, ignoring case
MatchOpcionId(resp_item, opciones) ==
    FirstIndex(LAMBDA i : Lower(Str(opciones[i].id)) = Lower(Str(resp_item)),
               Len(opciones))

\* int(resp_item) for an item whose str() is all digits
IntOf(resp_item) ==
    IF resp_item.t = "int" THEN resp_item.n ELSE ParseInt(resp_item.s)

\* a variant that reads the number as a 0-based index
MatchOpcionIndex_zero_based(resp_item, opciones) ==
    IF IsDigit(Str(resp_item))
    THEN LET option_index == IntOf(resp_item)
         IN  IF 0 <= option_index /\ option_index < Len(opciones)
             THEN option_index + 1
             ELSE 0
    ELSE 0

\* lines 250-259: the item as a 1-based index into the options (0: none)
MatchOpcionIndex(resp_item, opciones) ==
    IF IsDigit(Str(resp_item))
    THEN LET option_index == IntOf(resp_item) - 1
         IN  IF 0 <= option_index /\ option_index < Len(opciones)
             THEN option_index + 1
             ELSE 0
    ELSE 0

\* lines 261-269: scan of the options for a texto contained in the item;
\* texto.lower() raises for a texto that is not a string
MatchOpcionTexto(resp_item, opciones) ==
    LET hit == FirstIndex(LAMBDA i : /\ opciones[i].texto.t = "str"
                                     /\ Contains(Lower(opciones[i].texto.s),
                                                 Lower(Str(resp_item))),
                          Len(opciones))
        bad == FirstIndex(LAMBDA i : opciones[i].texto.t # "str", Len(opciones))
    IN  IF bad # 0 /\ (hit = 0 \/ bad < hit) THEN Raise
        ELSE Return(hit)

\* a variant that tries the numeric index before the option id
MapItem_index_first(resp_item, pregunta) ==
    LET opciones == pregunta.opciones
        by_id == MatchOpcionId(resp_item, opciones)
        by_index == MatchOpcionIndex(resp_item, opciones)
        by_texto == MatchOpcionTexto(resp_item, opciones)
        emit(i) == Return(<<[preguntaId |-> pregunta.id,
                             opcionId |-> opciones[i].id]>>)
    IN  IF by_index # 0 THEN emit(by_index)
        ELSE IF by_id # 0 THEN emit(by_id)
        ELSE IF by_texto.raised THEN Raise
        ELSE IF by_texto.value # 0 THEN emit(by_texto.value)
        ELSE Return(<<>>)

\* lines 238-269: what one item of a choice answer appends to api_responses
MapItem(resp_item, pregunta) ==
    LET opciones == pregunta.opciones
        by_id == MatchOpcionId(resp_item, opciones)
        by_index == MatchOpcionIndex(resp_item, opciones)
        by_texto == MatchOpcionTexto(resp_item, opciones)
        emit(i) == Return(<<[preguntaId |-> pregunta.id,
                             opcionId |-> opciones[i].id]>>)
    IN  IF by_id # 0 THEN emit(by_id)
        ELSE IF by_index # 0 THEN emit(by_index)
        ELSE IF by_texto.raised THEN Raise
        ELSE IF by_texto.value # 0 THEN emit(by_texto.value)
        ELSE Return(<<>>)

RECURSIVE MapItems_reversed(_, _)
\* a variant that emits the responses of the later items first
MapItems_reversed(respuestas_list, pregunta) ==
    IF respuestas_list = <<>> THEN Return(<<>>)
    ELSE LET first == MapItem(Head(respuestas_list), pregunta)
             rest == MapItems_reversed(Tail(respuestas_list), pregunta)
         IN  IF first.raised \/ rest.raised THEN Raise
             ELSE Return(rest.value \o first.value)

RECURSIVE MapItems(_, _)
\* line 238: the loop over respuestas_list
MapItems(respuestas_list, pregunta) ==
    IF respuestas_list = <<>> THEN Return(<<>>)
    ELSE LET first == MapItem(Head(respuestas_list), pregunta)
             rest == MapItems(Tail(respuestas_list), pregunta)
         IN  IF first.raised \/ rest.raised THEN Raise
             ELSE Return(first.value \o rest.value)

\* a variant that emits the raw value as text whatever the question type
MapResolved_always_text(pregunta_ocr, preguntas, found) ==
    IF found = 0 THEN Return(<<>>)
    ELSE Return(<<[preguntaId |-> preguntas[found].id,
                   texto |-> PyS(Str(pregunta_ocr.respuesta))]>>)

\* a variant that emits the raw value as text for a question without options
MapResolved_text_without_options(pregunta_ocr, preguntas, found) ==
    LET respuesta == pregunta_ocr.respuesta
        pregunta == preguntas[found]
    IN  IF found = 0 THEN Return(<<>>)
        ELSE IF pregunta.tipo.t # "str" THEN Raise
        ELSE IF Lower(pregunta.tipo.s) \in {S_abierta, S_completar}
                \/ pregunta.opciones = <<>>
        THEN Return(<<[preguntaId |-> pregunta.id,
                       texto |-> PyS(Str(respuesta))]>>)
        ELSE MapItems(IF respuesta.t = "list" THEN respuesta.l ELSE <<respuesta>>,
                      pregunta)

\* lines 222-269: what an answer with a truthy respuesta appends once
\* pregunta_template is settled (found = 0: it stayed None)
MapResolved(pregunta_ocr, preguntas, found) ==
    LET respuesta == pregunta_ocr.respuesta
        pregunta == preguntas[found]
    IN  IF found = 0 THEN Return(<<>>)
        ELSE IF pregunta.tipo.t # "str" THEN Raise
        ELSE IF Lower(pregunta.tipo.s) \in {S_abierta, S_completar}
        THEN Return(<<[preguntaId |-> pregunta.id,
                       texto |-> PyS(Str(respuesta))]>>)
        ELSE MapItems(IF respuesta.t = "list" THEN respuesta.l ELSE <<respuesta>>,
                      pregunta)

\* a variant that skips an answer only when it has no 'respuesta' key
MapPregunta_skip_missing(pregunta_ocr, preguntas) ==
    IF "respuesta" \notin DOMAIN pregunta_ocr THEN Return(<<>>)
    ELSE MapResolved(pregunta_ocr, preguntas,
                     FindPreguntaTemplate(pregunta_ocr, preguntas))

\* lines 200-269: what one extracted answer appends to api_responses
MapPregunta(pregunta_ocr, preguntas) ==
    IF ~Truthy(Get(pregunta_ocr, "respuesta", PyNone)) THEN Return(<<>>)
    ELSE MapResolved(pregunta_ocr, preguntas,
                     FindPreguntaTemplate(pregunta_ocr, preguntas))

RECURSIVE MapPreguntasStale(_, _, _)
\* the loop without line 204: pregunta_template keeps the question of the
\* answer before when an answer resolves to none
MapPreguntasStale(preguntas_ocr, preguntas, previous) ==
    IF preguntas_ocr = <<>> THEN Return(<<>>)
    ELSE LET pregunta_ocr == Head(preguntas_ocr)
             skipped == ~Truthy(Get(pregunta_ocr, "respuesta", PyNone))
             resolved == FindPreguntaTemplate(pregunta_ocr, preguntas)
             found == IF resolved # 0 THEN resolved ELSE previous
             first == IF skipped THEN Return(<<>>)
                      ELSE MapResolved(pregunta_ocr, preguntas, found)
             rest == MapPreguntasStale(Tail(preguntas_ocr), preguntas,
                                       IF skipped THEN previous ELSE found)
         IN  IF first.raised \/ rest.raised THEN Raise
             ELSE Return(first.value \o rest.value)

MapPreguntas_stale(preguntas_ocr, preguntas) ==
    MapPreguntasStale(preguntas_ocr, preguntas, 0)

RECURSIVE MapPreguntas(_, _)
\* line 199: the loop over preguntas_ocr
MapPreguntas(preguntas_ocr, preguntas) ==
    IF preguntas_ocr = <<>> THEN Return(<<>>)
    ELSE LET first == MapPregunta(Head(preguntas_ocr), preguntas)
             rest == MapPreguntas(Tail(preguntas_ocr), preguntas)
         IN  IF first.raised \/ rest.raised THEN Raise
             ELSE Return(first.value \o rest.value)

\* the extracted answers: a list of answer dicts, or a dict
OcrList(items) == [kind |-> "list", items |-> items, d |-> EmptyDict]
OcrDict(d) == [kind |-> "dict", items |-> <<>>, d |-> d]

\* bool(ocr_responses)
OcrTruthy(ocr) ==
    IF ocr.kind = "list" THEN ocr.items # <<>> ELSE DOMAIN ocr.d # {}

format_responses_for_api(ocr, template) ==
    IF ~OcrTruthy(ocr) \/ template = PyNone THEN Return(<<>>)
    ELSE IF ocr.kind = "dict" /\ "preguntas" \in DOMAIN ocr.d
    THEN MapPreguntas(ocr.d.preguntas, Get(template, "preguntas", <<>>))
    ELSE IF ocr.kind = "list"
    THEN MapPreguntas(ocr.items, Get(template, "preguntas", <<>>))
    ELSE Raise  \* iterating a dict yields its keys: str has no .get

(***************************************************************************)
(* QRCodeService.qr_patterns, is_valid_entrega_id, extract_entrega_id      *)
(***************************************************************************)

\* [a-f0-9] under re.IGNORECASE
HexChars ==
    Range(DigitChars) \cup {"a", "b", "c", "d", "e", "f"}
                      \cup {"A", "B", "C", "D", "E", "F"}

\* [a-f0-9\-] under re.IGNORECASE
HexDashChars == HexChars \cup {"-"}

\* [a-zA-Z0-9\-_]
IdChars ==
    Range(SubSeq(UpperChars, 1, 26)) \cup Range(SubSeq(LowerChars, 1, 26))
        \cup Range(DigitChars) \cup {"-", "_"}

RECURSIVE RunLen(_, _, _, _)
\* a greedy repetition of a character class from position i: the number
\* of characters it takes, at most max
RunLen(s, i, class, max) ==
    IF max = 0 \/ i > Len(s) THEN 0
    ELSE IF s[i] \notin class THEN 0
    ELSE 1 + RunLen(s, i + 1, class, max - 1)

\* a literal of a pattern at position i, under re.IGNORECASE
LiteralAt(lit, s, i) ==
    /\ i + Len(lit) - 1 <= Len(s)
    /\ Lower(SubSeq(s, i, i + Len(lit) - 1)) = Lower(lit)

\* [a-f0-9]{n} at position i
HexRun(s, i, n) ==
    /\ i + n - 1 <= Len(s)
    /\ \A k \in 0..(n - 1) : s[i + k] \in HexChars

\* [a-f0-9]{8}-[a-f0-9]{4}-[a-f0-9]{4}-[a-f0-9]{4}-[a-f0-9]{12} at position i
UuidAt(s, i) ==
    /\ i + 35 <= Len(s)
    /\ HexRun(s, i, 8) /\ s[i + 8] = "-"
    /\ HexRun(s, i + 9, 4) /\ s[i + 13] = "-"
    /\ HexRun(s, i + 14, 4) /\ s[i + 18] = "-"
    /\ HexRun(s, i + 19, 4) /\ s[i + 23] = "-"
    /\ HexRun(s, i + 24, 12)

S_entregaId == <<"e", "n", "t", "r", "e", "g", "a", "I", "d">>
S_entrega == <<"e", "n", "t", "r", "e", "g", "a">>

\* the patterns iterated in the opposite order
qr_patterns_reversed == <<"simple_id", "uuid", "url_entrega", "entrega_id">>

\* the patterns in the iteration order of the dict qr_patterns
qr_patterns == <<"entrega_id", "url_entrega", "uuid", "simple_id">>

\* group 1 of a match that starts at position i, as [start, len];
\* len = 0 when the pattern does not match at i
NoMatch(i) == [start |-> i, len |-> 0]

\* entregaId[=:]([a-f0-9\-]+)
GroupEntregaId(s, i) ==
    IF /\ LiteralAt(S_entregaId, s, i)
       /\ i + 9 <= Len(s)
       /\ s[i + 9] \in {"=", ":"}
    THEN [start |-> i + 10, len |-> RunLen(s, i + 10, HexDashChars, Len(s))]
    ELSE NoMatch(i)

\* entrega[/\?]([a-f0-9\-]+)
GroupUrlEntrega(s, i) ==
    IF /\ LiteralAt(S_entrega, s, i)
       /\ i + 7 <= Len(s)
       /\ s[i + 7] \in {"/", "?"}
    THEN [start |-> i + 8, len |-> RunLen(s, i + 8, HexDashChars, Len(s))]
    ELSE NoMatch(i)

\* ([a-f0-9]{8}-[a-f0-9]{4}-[a-f0-9]{4}-[a-f0-9]{4}-[a-f0-9]{12})
GroupUuid(s, i) == [start |-> i, len |-> IF UuidAt(s, i) THEN 36 ELSE 0]

\* a variant with a lazy repetition, ([a-zA-Z0-9\-_]{10,50}?)
GroupSimpleId_lazy(s, i) ==
    LET run == RunLen(s, i, IdChars, 10)
    IN  [start |-> i, len |-> IF run >= 10 THEN run ELSE 0]

\* ([a-zA-Z0-9\-_]{10,50})
GroupSimpleId(s, i) ==
    LET run == RunLen(s, i, IdChars, 50)
    IN  [start |-> i, len |-> IF run >= 10 THEN run ELSE 0]

GroupAt(pattern, s, i) ==
    CASE pattern = "entrega_id" -> GroupEntregaId(s, i)
      [] pattern = "url_entrega" -> GroupUrlEntrega(s, i)
      [] pattern = "uuid" -> GroupUuid(s, i)
      [] pattern = "simple_id" -> GroupSimpleId(s, i)

RECURSIVE SearchFrom(_, _, _)
\* the leftmost position >= i where the pattern matches, 0 when none
SearchFrom(pattern, s, i) ==
    IF i > Len(s) THEN 0
    ELSE IF GroupAt(pattern, s, i).len > 0 THEN i
    ELSE SearchFrom(pattern, s, i + 1)

\* re.findall(pattern, qr_data, re.IGNORECASE): whether it is non-empty,
\* and matches[0]
FindFirst(pattern, s) ==
    LET at == SearchFrom(pattern, s, 1)
        g == GroupAt(pattern, s, at)
    IN  IF at = 0 THEN [found |-> FALSE, group |-> <<>>]
        ELSE [found |-> TRUE, group |-> SubSeq(s, g.start, g.start + g.len - 1)]

\* ^...$ : $ also matches just before a final newline
BeforeEnd(text) ==
    IF text # <<>> /\ text[Len(text)] = "\n"
    THEN {text, SubSeq(text, 1, Len(text) - 1)}
    ELSE {text}

\* a variant of the validator that accepts every candidate
is_valid_entrega_id_any(text) == TRUE

is_valid_entrega_id(text) ==
    \/ \E t \in BeforeEnd(text) : Len(t) = 36 /\ UuidAt(t, 1)
    \/ \E t \in BeforeEnd(text) :
            /\ Len(t) >= 10
            /\ Len(t) <= 50
            /\ \A k \in 1..Len(t) : t[k] \in IdChars

RECURSIVE TryPatterns_first_match(_, _)
\* a variant in which the first pattern that matches ends the loop
TryPatterns_first_match(s, k) ==
    IF k > Len(qr_patterns)
    THEN IF is_valid_entrega_id(s) THEN PyS(s) ELSE PyNone
    ELSE LET matches == FindFirst(qr_patterns[k], s)
         IN  IF matches.found
             THEN IF is_valid_entrega_id(matches.group)
                  THEN PyS(matches.group) ELSE PyNone
             ELSE TryPatterns_first_match(s, k + 1)

RECURSIVE TryPatterns(_, _)
\* lines 100-112: the loop over qr_patterns from the k-th pattern on, then
\* the whole payload
TryPatterns(s, k) ==
    IF k > Len(qr_patterns)
    THEN IF is_valid_entrega_id(s) THEN PyS(s) ELSE PyNone
    ELSE LET matches == FindFirst(qr_patterns[k], s)
         IN  IF matches.found /\ is_valid_entrega_id(matches.group)
             THEN PyS(matches.group)
             ELSE TryPatterns(s, k + 1)

extract_entrega_id(s) == TryPatterns(s, 1)

(***************************************************************************)
(* Decoded QR payloads                                                     *)
(***************************************************************************)

\* most pieces a payload is put together from
MaxChunks == 3

K_marker == S_entregaId \o <<"=">>
K_path == S_entrega \o <<"/">>
K_uuid ==
    <<"1", "a", "2", "B", "3", "c", "4", "d", "-", "5", "e", "6", "F", "-",
      "7", "a", "8", "b", "-", "9", "c", "0", "d", "-",
      "1", "e", "2", "f", "3", "A", "4", "b", "5", "C", "6", "d">>
K_hex == <<"a", "b", "c", "d", "e">>
K_token ==
    <<"e", "n", "c", "u", "e", "s", "t", "a", "_", "2", "0", "2", "4", "_",
      "x", "y", "z">>
K_newline == <<"\n">>

Chunks == {K_marker, K_path, K_uuid, K_hex, K_token, K_newline}

RECURSIVE Concat(_)
Concat(chunks) ==
    IF chunks = <<>> THEN <<>> ELSE Head(chunks) \o Concat(Tail(chunks))

RECURSIVE SeqsUpTo(_, _)
\* the sequences over S of length at most n
SeqsUpTo(S, n) ==
    IF n = 0 THEN {<<>>}
    ELSE LET shorter == SeqsUpTo(S, n - 1)
         IN  shorter \cup {Append(q, x) : q \in shorter, x \in S}

Payloads == {Concat(c) : c \in SeqsUpTo(Chunks, MaxChunks)}

(***************************************************************************)
(* Inputs of the reconciler: fetch results and extracted answers           *)
(***************************************************************************)

S_q1 == <<"q", "1">>
S_q2 == <<"q", "2">>
S_zz == <<"z", "z">>
S_o1 == <<"o", "1">>
S_o2 == <<"o", "2">>
S_opcion == <<"o", "p", "c", "i", "o", "n">>
S_Rojo == <<"R", "o", "j", "o">>
S_Azul == <<"A", "z", "u", "l">>
S_hola == <<"h", "o", "l", "a">>
S_Si == <<"S", "í">>
S_No == <<"N", "o">>
S_si_correcto == <<"s", "í", ",", " ", "c", "o", "r", "r", "e", "c", "t", "o">>

\* a raw question of the survey service
RawPregunta(id, orden, nombre, opciones) ==
    [id |-> PyS(id), orden |-> PyI(orden), tipo |-> [nombre |-> nombre],
     opciones |-> opciones]

RawOpcion(id, texto) == [id |-> PyS(id), texto |-> PyS(texto)]

\* the two questions of the end-to-end example: q1 has no 'opciones' key
Raw_q1_abierta ==
    [id |-> PyS(S_q1), orden |-> PyI(1), tipo |-> [nombre |-> PyS(S_abierta)]]
Raw_q2_opcion ==
    RawPregunta(S_q2, 2, PyS(S_opcion),
                <<RawOpcion(S_o1, S_Rojo), RawOpcion(S_o2, S_Azul)>>)

\* options given by id alone (no 'texto' key), as A, B, C
Raw_q1_ABC ==
    RawPregunta(S_q1, 1, PyS(S_opcion),
                <<[id |-> PyS(<<"A">>)], [id |-> PyS(<<"B">>)], [id |-> PyS(<<"C">>)]>>)
Raw_q2_ABIERTA ==
    RawPregunta(S_q2, 2, PyS(<<"A", "B", "I", "E", "R", "T", "A">>), <<>>)

Raw_q1_SiNo ==
    RawPregunta(S_q1, 1, PyS(S_opcion),
                <<RawOpcion(<<"x", "1">>, S_Si), RawOpcion(<<"x", "2">>, S_No)>>)
Raw_q2_Completar ==
    RawPregunta(S_q2, 2, PyS(<<"C", "o", "m", "p", "l", "e", "t", "a", "r">>), <<>>)

\* option ids that are digit strings; the first option has no 'texto' key
Raw_q1_digits ==
    RawPregunta(S_q1, 1, PyS(S_opcion),
                <<[id |-> PyS(<<"2">>)], RawOpcion(<<"1">>, S_Azul)>>)
\* no 'orden' and no 'tipo' key, no options: a numeric question
Raw_q2_bare == [id |-> PyS(S_q2)]
\* tipo.nombre null
Raw_q2_null_tipo == RawPregunta(S_q2, 2, PyNone, <<>>)

\* options listed o2, o1, o2: not in id order, one repeated
Raw_q2_shuffled ==
    RawPregunta(S_q2, 2, PyS(S_opcion),
                <<RawOpcion(S_o2, S_Azul), RawOpcion(S_o1, S_Rojo),
                  RawOpcion(S_o2, S_Azul)>>)

\* an option whose text is a digit string, and a numeric question that has
\* no options
Raw_q1_numtext ==
    RawPregunta(S_q1, 1, PyS(S_opcion),
                <<RawOpcion(S_o1, <<"7">>), RawOpcion(S_o2, S_Azul)>>)
Raw_q2_numerica ==
    RawPregunta(S_q2, 2, PyS(<<"N", "u", "m", "e", "r", "i", "c", "a">>), <<>>)
\* an open question that has no 'orden' key
Raw_q3_sin_orden ==
    [id |-> PyS(<<"q", "3">>), tipo |-> [nombre |-> PyS(S_abierta)]]

FetchOk(preguntas) ==
    [success |-> TRUE, entrega_id |-> PyS(<<"e", "1">>),
     encuesta |-> [id |-> PyS(<<"s", "1">>), nombre |-> PyS(<<"n">>),
                   descripcion |-> PyNone],
     preguntas |-> preguntas, total_preguntas |-> Len(preguntas), error |-> PyNone]

FetchFailed ==
    [success |-> FALSE, error |-> PyS(<<"4", "0", "4">>),
     entrega_id |-> PyS(<<"e", "1">>), status_code |-> 404]

FetchResults ==
    {FetchOk(<<Raw_q1_abierta, Raw_q2_opcion>>),
     FetchOk(<<Raw_q1_ABC, Raw_q2_ABIERTA>>),
     FetchOk(<<Raw_q1_SiNo, Raw_q2_Completar>>),
     FetchOk(<<Raw_q1_digits, Raw_q2_bare>>),
     FetchOk(<<Raw_q1_SiNo, Raw_q2_null_tipo>>),
     FetchOk(<<Raw_q2_shuffled, Raw_q1_abierta, Raw_q2_shuffled>>),
     FetchOk(<<Raw_q1_numtext, Raw_q2_numerica, Raw_q3_sin_orden>>),
     FetchFailed}

\* longest list of extracted answers
MaxAnswers == 2

PreguntaIds == {PyS(S_q1), PyS(S_q2), PyS(S_zz)}
Ordenes == {PyI(1), PyI(2)}

Respuestas ==
    {PyS(S_hola), PyS(S_Azul), PyS(<<"2">>), PyS(<<"7">>), PyS(S_si_correcto),
     PyS(<<>>), PyI(0), PyI(2), PyNone,
     PyL(<<PyS(S_o1), PyS(<<"0", "2">>)>>),
     PyL(<<PyS(S_o2), PyS(<<"1">>)>>)}

\* an extracted answer: the keys pregunta_id and orden may be missing
Answer(keys, pregunta_id, orden, respuesta) ==
    [k \in keys \cup {"respuesta"} |->
        CASE k = "pregunta_id" -> pregunta_id
          [] k = "orden" -> orden
          [] k = "respuesta" -> respuesta]

\* answers that vary in how they resolve, and answers that vary in value
Answers ==
    {Answer(keys, id, o, PyS(S_hola)) :
        keys \in SUBSET {"pregunta_id", "orden"}, id \in PreguntaIds, o \in Ordenes}
    \cup {Answer({"pregunta_id"}, id, PyNone, r) :
            id \in {PyS(S_q1), PyS(S_q2)}, r \in Respuestas}
    \cup {[orden |-> PyI(1)], [orden |-> PyI(2), respuesta |-> PyL(<<>>)]}

OcrInputs ==
    {OcrList(l) : l \in SeqsUpTo(Answers, MaxAnswers)}
    \cup {OcrDict([preguntas |-> l]) : l \in SeqsUpTo(Answers, 1)}
    \cup {OcrDict([texto |-> PyS(S_hola)]), OcrDict(EmptyDict)}

(***************************************************************************)
(* The run: fetch result -> template -> extracted answers -> responses     *)
(***************************************************************************)

\* no orchestration entry point is running
RunIdle ==
    /\ entry = "none"
    /\ image_qrs = <<>>
    /\ qr_result = Pending
    /\ ocr_result = Pending
    /\ save_result = Pending
    /\ s3_url = PyNone
    /\ posted = <<>>
    /\ calls = <<>>
    /\ result = Pending
    /\ file = Pending
    /\ response = Pending
    /\ other = Pending

Init ==
    /\ RunIdle
    /\ pc = "fetched"
    /\ template_result \in FetchResults
    /\ survey_template = PyNone
    /\ ocr_responses = OcrList(<<>>)
    /\ api_responses = Return(<<>>)
    /\ qr_data = <<>>
    /\ entrega_id = PyNone

\* survey_template = process_survey_template(template_result)
ProcessSurveyTemplate ==
    /\ pc = "fetched"
    /\ survey_template' = process_survey_template(template_result)
    /\ pc' = "template"
    /\ UNCHANGED <<template_result, ocr_responses, api_responses, qr_data, entrega_id>>
    /\ UNCHANGED runVars
    /\ UNCHANGED httpVars
    /\ UNCHANGED other

\* the AI extraction hands over a set of extracted answers
Extraction ==
    /\ pc = "template"
    /\ ocr_responses' \in OcrInputs
    /\ pc' = "extracted"
    /\ UNCHANGED <<template_result, survey_template, api_responses, qr_data, entrega_id>>
    /\ UNCHANGED runVars
    /\ UNCHANGED httpVars
    /\ UNCHANGED other

\* api_responses = format_responses_for_api(ocr_responses, survey_template)
FormatResponsesForApi ==
    /\ pc = "extracted"
    /\ api_responses' = format_responses_for_api(ocr_responses, survey_template)
    /\ pc' = "done"
    /\ UNCHANGED <<template_result, survey_template, ocr_responses, qr_data, entrega_id>>
    /\ UNCHANGED runVars
    /\ UNCHANGED httpVars
    /\ UNCHANGED other

Next == ProcessSurveyTemplate \/ Extraction \/ FormatResponsesForApi

Spec == Init /\ [][Next]_vars

(***************************************************************************)
(* The identifier extractor on a decoded payload                           *)
(***************************************************************************)

InitQR ==
    /\ RunIdle
    /\ pc = "decoded"
    /\ qr_data \in Payloads
    /\ entrega_id = PyNone
    /\ template_result = PyNone
    /\ survey_template = PyNone
    /\ ocr_responses = OcrList(<<>>)
    /\ api_responses = Return(<<>>)

\* entrega_id = extract_entrega_id(data)
ExtractEntregaId ==
    /\ pc = "decoded"
    /\ entrega_id' = extract_entrega_id(qr_data)
    /\ pc' = "extracted_id"
    /\ UNCHANGED <<qr_data, template_result, survey_template, ocr_responses,
                   api_responses>>
    /\ UNCHANGED runVars
    /\ UNCHANGED httpVars
    /\ UNCHANGED other

NextQR == ExtractEntregaId

SpecQR == InitQR /\ [][NextQR]_vars

(***************************************************************************)
(* QRCodeService.detect_qr_codes and find_best_entrega_qr                  *)
(***************************************************************************)

\* _format_bbox: the bounding box of a symbol, w wide and h high
Box(w, h) == [x |-> 0, y |-> 0, width |-> w, height |-> h, x2 |-> w, y2 |-> h]

\* a QR symbol printed on the image: its payload and its bounding box (None
\* when the detector reports no box)
Symbol(data, bbox) == [data |-> data, bbox |-> bbox]

\* most symbols on one image
MaxSymbols == 2

Symbols ==
    {Symbol(d, b) : d \in {K_uuid, K_token, K_hex},
                    b \in {Box(2, 2), Box(1, 3), PyNone}}

Images == SeqsUpTo(Symbols, MaxSymbols)

\* qr_detector.detectAndDecode(gray): an error, no data, or the data and the
\* box of one symbol of the image; which symbol is the detector's choice
Decoded(image) ==
    {[raised |-> TRUE, data |-> <<>>, bbox |-> PyNone],
     [raised |-> FALSE, data |-> <<>>, bbox |-> PyNone]}
    \cup {[raised |-> FALSE, data |-> image[i].data, bbox |-> image[i].bbox] :
            i \in 1..Len(image)}

\* lines 42-48
qr_info(data, bbox) ==
    [data |-> data, type |-> "QRCODE", bbox |-> bbox,
     entrega_id |-> extract_entrega_id(data),
     is_entrega |-> extract_entrega_id(data) # PyNone]

\* lines 52-58: the result built from the list results
QrResult(results) ==
    [success |-> TRUE, qr_codes |-> results, total_found |-> Len(results),
     entrega_qrs |-> SelectSeq(results, LAMBDA qr : qr.is_entrega),
     error |-> PyNone]

detect_qr_codes(decoded) ==
    IF decoded.raised
    THEN [success |-> FALSE, qr_codes |-> <<>>, total_found |-> 0,
          entrega_qrs |-> <<>>, error |-> PyS(<<"e">>)]
    ELSE QrResult(IF decoded.data # <<>>
                  THEN <<qr_info(decoded.data, decoded.bbox)>>
                  ELSE <<>>)

\* the key of max() at line 207
Area(qr) == IF qr.bbox # PyNone THEN qr.bbox.width * qr.bbox.height ELSE 0

find_best_entrega_qr(qr_results) ==
    LET entrega_qrs == Get(qr_results, "entrega_qrs", <<>>)
        n == Len(entrega_qrs)
        largest == FirstIndex(LAMBDA i : \A j \in 1..n :
                                  Area(entrega_qrs[j]) <= Area(entrega_qrs[i]), n)
        best_qr == IF entrega_qrs[1].bbox # PyNone
                   THEN entrega_qrs[largest] ELSE entrega_qrs[1]
    IN  IF entrega_qrs = <<>> THEN PyNone
        ELSE [entrega_id |-> best_qr.entrega_id,
              qr_data |-> best_qr.data,
              confidence |-> IF n = 1 THEN "high" ELSE "medium",
              bbox |-> best_qr.bbox]

(***************************************************************************)
(* The orchestration entry points:                                         *)
(*   SurveyProcessingService.process_survey_image          ("image")       *)
(*   SurveyProcessingService.process_survey_with_known_id  ("known_id")    *)
(*   process_audio_survey_complete (audio_router.py)       ("audio")       *)
(* and the selector QRCodeService.find_best_entrega_qr     ("find_best")   *)
(***************************************************************************)

\* a 200 answer of the service that carries no 'encuesta'
FetchOkNoEncuesta ==
    [FetchOk(<<Raw_q1_abierta, Raw_q2_opcion>>) EXCEPT !.encuesta = PyNone]

RunFetchResults ==
    {FetchOk(<<Raw_q1_abierta, Raw_q2_opcion>>),
     FetchOk(<<Raw_q1_SiNo, Raw_q2_null_tipo>>),
     FetchOkNoEncuesta,
     FetchFailed}

\* encuesta_info.get at lines 154-156 on an 'encuesta' that is None
process_survey_template_raises(preguntas_data) ==
    /\ Get(preguntas_data, "success", FALSE)
    /\ "encuesta" \in DOMAIN preguntas_data
    /\ preguntas_data.encuesta = PyNone

\* json.loads gave null
OcrNone == [kind |-> "none", items |-> <<>>, d |-> EmptyDict]

A_q1_hola == Answer({"pregunta_id"}, PyS(S_q1), PyNone, PyS(S_hola))
A_q2_Azul == Answer({"pregunta_id"}, PyS(S_q2), PyNone, PyS(S_Azul))
A_zz_hola == Answer({"pregunta_id"}, PyS(S_zz), PyNone, PyS(S_hola))

\* what GeminiOCRService.process_survey returns
OcrResults ==
    {[error |-> PyS(<<"e">>)],
     [success |-> FALSE, survey_completed |-> OcrNone, error |-> PyS(<<"e">>)]}
    \cup {[success |-> TRUE, survey_completed |-> sc, error |-> PyNone] :
            sc \in {OcrDict([preguntas |-> <<A_q1_hola, A_q2_Azul>>]),
                    OcrDict([preguntas |-> <<A_zz_hola>>]),
                    OcrDict([texto |-> PyS(S_hola)]),
                    OcrList(<<A_q2_Azul>>),
                    OcrNone}}

\* what AudioService.process_survey_response returns
AudioResults ==
    {[respuestas |-> <<>>],
     [respuestas |-> <<A_q1_hola, A_q2_Azul>>],
     [respuestas |-> <<A_zz_hola>>]}

\* what save_entrega_respuestas returns: 201, 400, no connection
SaveResults ==
    {[success |-> TRUE, error |-> PyNone],
     [success |-> FALSE, error |-> PyS(<<"4", "0", "0">>), status_code |-> 400,
      validation_error |-> TRUE],
     [success |-> FALSE, error |-> PyS(<<"e">>), status_code |-> 0]}

S_url == <<"s", "3", ":", "/", "/", "a">>

\* survey_processor.py:27
qr_scan_failed(r) == ~r.success \/ r.entrega_qrs = <<>>

\* survey_processor.py:39 and 94, audio_router.py:210
api_get_failed(r) == ~Get(r, "success", FALSE)

\* a variant that never sees a failed extraction
gemini_ocr_failed_never(r) == FALSE

\* survey_processor.py:53 and 107
gemini_ocr_failed(r) == ~Get(r, "success", FALSE)

\* survey_processor.py:28-32
qr_scan_failure ==
    [success |-> FALSE, error |-> "No se encontro codigo QR con entrega ID",
     step |-> "qr_scan"]

\* survey_processor.py:40-45 and 95-99, audio_router.py:211-215
api_get_failure(e, id, url) ==
    CASE e = "image" ->
            [success |-> FALSE, error |-> "Error obteniendo encuesta",
             entrega_id |-> id, step |-> "api_get"]
      [] e = "known_id" ->
            [success |-> FALSE, error |-> "Error obteniendo plantilla",
             entrega_id |-> id]
      [] e = "audio" ->
            [success |-> FALSE,
             error |-> "No se pudo obtener informacion de la entrega",
             s3_url |-> url]

\* survey_processor.py:54-59 and 108-112
gemini_ocr_failure(e, id) ==
    CASE e = "image" ->
            [success |-> FALSE, error |-> "Error en Gemini",
             entrega_id |-> id, step |-> "gemini_ocr"]
      [] e = "known_id" ->
            [success |-> FALSE, error |-> "Error en OCR", entrega_id |-> id]

\* a variant whose handler reports the run as successful
on_exception_ok(e, id) == [success |-> TRUE, step |-> "exception"]

\* the except clauses: survey_processor.py:79-84 and 130-135,
\* audio_router.py:300-305
on_exception(e, id) ==
    CASE e = "image" ->
            [success |-> FALSE, error |-> "Error inesperado", step |-> "exception"]
      [] e = "known_id" ->
            [success |-> FALSE, error |-> "Error procesando encuesta",
             entrega_id |-> id]
      [] e = "audio" ->
            [success |-> FALSE, error |-> "error"]

\* the answers handed to format_responses_for_api: survey_processor.py:63
\* and 115-117, audio_router.py:249
extracted_answers(e, r) ==
    CASE e = "image" -> Return(Get(r, "survey_completed", OcrDict(EmptyDict)))
      [] e = "known_id" ->
            LET survey_completed == Get(r, "survey_completed", OcrDict(EmptyDict))
            IN  IF survey_completed.kind = "dict"
                THEN Return(OcrList(Get(survey_completed.d, "preguntas", <<>>)))
                ELSE Raise  \* a list and None have no .get
      [] e = "audio" -> Return(OcrList(r.respuestas))

\* survey_processor.py:70-77
image_success(id, template, formatted, save) ==
    [success |-> TRUE, entrega_id |-> id, encuesta |-> template.encuesta,
     responses_sent |-> Len(formatted), save_result |-> save,
     post_success |-> Get(save, "success", FALSE)]

\* survey_processor.py:121-128
known_id_success(id, template, r, formatted) ==
    [success |-> TRUE, entrega_id |-> id, encuesta |-> template.encuesta,
     ocr_result |-> Get(r, "survey_completed", OcrDict(EmptyDict)),
     api_responses |-> formatted,
     total_responses |-> Len(formatted)]

\* audio_router.py:282-289
audio_success(id, formatted, url) ==
    [success |-> TRUE, entrega_id |-> id, user_id |-> "u",
     responses_sent |-> Len(formatted), post_success |-> TRUE, s3_url |-> url]

InitRun ==
    /\ entry \in {"image", "known_id", "audio", "find_best"}
    /\ image_qrs \in (IF entry \in {"image", "find_best"} THEN Images ELSE {<<>>})
    /\ pc = (CASE entry = "image" -> "qr_scan"
               [] entry = "known_id" -> "api_get"
               [] entry = "audio" -> "s3_upload"
               [] entry = "find_best" -> "find_best")
    /\ entrega_id = (IF entry \in {"known_id", "audio"} THEN PyS(<<"e", "1">>)
                     ELSE PyNone)
    /\ qr_result = (IF entry = "find_best"
                    THEN QrResult([i \in 1..Len(image_qrs) |->
                                     qr_info(image_qrs[i].data, image_qrs[i].bbox)])
                    ELSE Pending)
    /\ qr_data = <<>>
    /\ template_result = PyNone
    /\ survey_template = PyNone
    /\ ocr_responses = OcrList(<<>>)
    /\ api_responses = Return(<<>>)
    /\ ocr_result = Pending
    /\ save_result = Pending
    /\ s3_url = PyNone
    /\ posted = <<>>
    /\ calls = <<>>
    /\ result = Pending
    /\ file = Pending
    /\ response = Pending
    /\ other = Pending

\* survey_processor.py:25-34
QrScan ==
    /\ pc = "qr_scan"
    /\ \E decoded \in Decoded(image_qrs) :
          LET r == detect_qr_codes(decoded)
          IN  /\ qr_result' = r
              /\ IF qr_scan_failed(r)
                 THEN /\ result' = qr_scan_failure
                      /\ pc' = "returned"
                      /\ entrega_id' = entrega_id
                 ELSE /\ entrega_id' = r.entrega_qrs[1].entrega_id
                      /\ pc' = "api_get"
                      /\ result' = result
    /\ calls' = Append(calls, "qr_scan")
    /\ UNCHANGED <<template_result, survey_template, ocr_responses, api_responses,
                   qr_data, entry, image_qrs, ocr_result, save_result, s3_url,
                   posted>>
    /\ UNCHANGED httpVars
    /\ UNCHANGED other

\* audio_router.py:200
UploadS3 ==
    /\ pc = "s3_upload"
    /\ s3_url' \in {PyS(<<>>), PyS(S_url)}
    /\ calls' = Append(calls, "s3_upload")
    /\ pc' = "api_get_first"
    /\ UNCHANGED <<template_result, survey_template, ocr_responses, api_responses,
                   qr_data, entrega_id, entry, image_qrs, qr_result, ocr_result,
                   save_result, posted, result>>
    /\ UNCHANGED httpVars
    /\ UNCHANGED other

\* audio_router.py:204: a fetch whose result line 208 overwrites
ApiGetFirst ==
    /\ pc = "api_get_first"
    /\ template_result' \in RunFetchResults
    /\ calls' = Append(calls, "api_get")
    /\ pc' = "api_get"
    /\ UNCHANGED <<survey_template, ocr_responses, api_responses, qr_data,
                   entrega_id, entry, image_qrs, qr_result, ocr_result,
                   save_result, s3_url, posted, result>>
    /\ UNCHANGED httpVars
    /\ UNCHANGED other

\* survey_processor.py:37-48 and 92-102, audio_router.py:208-218
ApiGet ==
    /\ pc = "api_get"
    /\ \E r \in RunFetchResults :
          /\ template_result' = r
          /\ IF api_get_failed(r)
             THEN /\ result' = api_get_failure(entry, entrega_id, s3_url)
                  /\ pc' = "returned"
                  /\ calls' = Append(calls, "api_get")
                  /\ survey_template' = survey_template
             ELSE IF process_survey_template_raises(r)
             THEN /\ pc' = "except"
                  /\ calls' = calls \o <<"api_get", "raise">>
                  /\ UNCHANGED <<result, survey_template>>
             ELSE /\ survey_template' = process_survey_template(r)
                  /\ pc' = (IF entry = "audio" THEN "whisper" ELSE "gemini_ocr")
                  /\ calls' = Append(calls, "api_get")
                  /\ result' = result
    /\ UNCHANGED <<ocr_responses, api_responses, qr_data, entrega_id, entry,
                   image_qrs, qr_result, ocr_result, save_result, s3_url, posted>>
    /\ UNCHANGED httpVars
    /\ UNCHANGED other

\* survey_processor.py:51-59 and 105-112
GeminiOcr ==
    /\ pc = "gemini_ocr"
    /\ \E r \in OcrResults :
          /\ ocr_result' = r
          /\ IF gemini_ocr_failed(r)
             THEN result' = gemini_ocr_failure(entry, entrega_id) /\ pc' = "returned"
             ELSE result' = result /\ pc' = "format"
    /\ calls' = Append(calls, "gemini_ocr")
    /\ UNCHANGED <<template_result, survey_template, ocr_responses, api_responses,
                   qr_data, entrega_id, entry, image_qrs, qr_result, save_result,
                   s3_url, posted>>
    /\ UNCHANGED httpVars
    /\ UNCHANGED other

\* audio_router.py:222-229: transcribe_audio gives "" when it fails
Whisper ==
    /\ pc = "whisper"
    /\ \E transcribed_text \in {<<>>, S_hola} :
          IF transcribed_text = <<>>
          THEN /\ result' = [success |-> FALSE,
                             error |-> "No se pudo transcribir el audio",
                             s3_url |-> s3_url]
               /\ pc' = "returned"
          ELSE result' = result /\ pc' = "gemini_text"
    /\ calls' = Append(calls, "whisper")
    /\ UNCHANGED <<template_result, survey_template, ocr_responses, api_responses,
                   qr_data, entrega_id, entry, image_qrs, qr_result, ocr_result,
                   save_result, s3_url, posted>>
    /\ UNCHANGED httpVars
    /\ UNCHANGED other

\* audio_router.py:233-241
GeminiText ==
    /\ pc = "gemini_text"
    /\ \E r \in AudioResults :
          /\ ocr_result' = r
          /\ IF r.respuestas = <<>>
             THEN /\ result' = [success |-> FALSE,
                                error |-> "No se pudieron extraer respuestas del audio",
                                transcripcion |-> PyS(S_hola),
                                s3_url |-> s3_url]
                  /\ pc' = "returned"
             ELSE result' = result /\ pc' = "format"
    /\ calls' = Append(calls, "gemini_text")
    /\ UNCHANGED <<template_result, survey_template, ocr_responses, api_responses,
                   qr_data, entrega_id, entry, image_qrs, qr_result, save_result,
                   s3_url, posted>>
    /\ UNCHANGED httpVars
    /\ UNCHANGED other

\* a variant in which an empty reconciliation result ends the run
Format_stop_on_empty ==
    /\ pc = "format"
    /\ LET extracted == extracted_answers(entry, ocr_result)
           formatted == IF extracted.raised THEN Raise
                        ELSE format_responses_for_api(extracted.value, survey_template)
       IN  /\ ocr_responses' = (IF extracted.raised THEN ocr_responses
                                ELSE extracted.value)
           /\ api_responses' = formatted
           /\ calls' = calls \o (IF extracted.raised THEN <<"raise">>
                                 ELSE IF formatted.raised THEN <<"format", "raise">>
                                 ELSE <<"format">>)
           /\ IF formatted.raised
              THEN pc' = "except" /\ result' = result
              ELSE IF entry = "known_id"
              THEN /\ result' = known_id_success(entrega_id, survey_template,
                                                 ocr_result, formatted.value)
                   /\ pc' = "returned"
              ELSE IF formatted.value = <<>>
              THEN /\ result' = [success |-> FALSE, step |-> "format"]
                   /\ pc' = "returned"
              ELSE pc' = "api_post" /\ result' = result
    /\ UNCHANGED <<template_result, survey_template, qr_data, entrega_id, entry,
                   image_qrs, qr_result, ocr_result, save_result, s3_url, posted>>
    /\ UNCHANGED httpVars
    /\ UNCHANGED other

\* survey_processor.py:62-65 and 115-128, audio_router.py:248-251
Format ==
    /\ pc = "format"
    /\ LET extracted == extracted_answers(entry, ocr_result)
           formatted == IF extracted.raised THEN Raise
                        ELSE format_responses_for_api(extracted.value, survey_template)
       IN  /\ ocr_responses' = (IF extracted.raised THEN ocr_responses
                                ELSE extracted.value)
           /\ api_responses' = formatted
           /\ calls' = calls \o (IF extracted.raised THEN <<"raise">>
                                 ELSE IF formatted.raised THEN <<"format", "raise">>
                                 ELSE <<"format">>)
           /\ IF formatted.raised
              THEN pc' = "except" /\ result' = result
              ELSE IF entry = "known_id"
              THEN /\ result' = known_id_success(entrega_id, survey_template,
                                                 ocr_result, formatted.value)
                   /\ pc' = "returned"
              ELSE pc' = "api_post" /\ result' = result
    /\ UNCHANGED <<template_result, survey_template, qr_data, entrega_id, entry,
                   image_qrs, qr_result, ocr_result, save_result, s3_url, posted>>
    /\ UNCHANGED httpVars
    /\ UNCHANGED other

\* a variant in which the audio run goes on to the record insertion whatever
\* the submission returned
ApiPost_insert_always ==
    /\ pc = "api_post"
    /\ \E r \in SaveResults :
          /\ save_result' = r
          /\ IF entry = "image"
             THEN /\ result' = image_success(entrega_id, survey_template,
                                             api_responses.value, r)
                  /\ pc' = "returned"
             ELSE result' = result /\ pc' = "db_insert"
    /\ posted' = Append(posted, api_responses.value)
    /\ calls' = Append(calls, "api_post")
    /\ UNCHANGED <<template_result, survey_template, ocr_responses, api_responses,
                   qr_data, entrega_id, entry, image_qrs, qr_result, ocr_result,
                   s3_url>>
    /\ UNCHANGED httpVars
    /\ UNCHANGED other

\* survey_processor.py:68-77, audio_router.py:259-265 and 290-298
ApiPost ==
    /\ pc = "api_post"
    /\ \E r \in SaveResults :
          /\ save_result' = r
          /\ IF entry = "image"
             THEN /\ result' = image_success(entrega_id, survey_template,
                                             api_responses.value, r)
                  /\ pc' = "returned"
             ELSE IF Get(r, "success", FALSE)
             THEN result' = result /\ pc' = "db_insert"
             ELSE /\ result' = [success |-> FALSE,
                                error |-> "Error enviando respuestas",
                                s3_url |-> s3_url]
                  /\ pc' = "returned"
    /\ posted' = Append(posted, api_responses.value)
    /\ calls' = Append(calls, "api_post")
    /\ UNCHANGED <<template_result, survey_template, ocr_responses, api_responses,
                   qr_data, entrega_id, entry, image_qrs, qr_result, ocr_result,
                   s3_url>>
    /\ UNCHANGED httpVars
    /\ UNCHANGED other

\* audio_router.py:269-289: the record insertion may succeed, fail or raise;
\* the run returns the same result in the three cases
DbInsert ==
    /\ pc = "db_insert"
    /\ calls' = Append(calls, "db_insert")
    /\ result' = audio_success(entrega_id, api_responses.value, s3_url)
    /\ pc' = "returned"
    /\ UNCHANGED <<template_result, survey_template, ocr_responses, api_responses,
                   qr_data, entrega_id, entry, image_qrs, qr_result, ocr_result,
                   save_result, s3_url, posted>>
    /\ UNCHANGED httpVars
    /\ UNCHANGED other

\* the except clause of the entry point
Except ==
    /\ pc = "except"
    /\ result' = on_exception(entry, entrega_id)
    /\ pc' = "returned"
    /\ UNCHANGED <<template_result, survey_template, ocr_responses, api_responses,
                   qr_data, entrega_id, entry, image_qrs, qr_result, ocr_result,
                   save_result, s3_url, posted, calls>>
    /\ UNCHANGED httpVars
    /\ UNCHANGED other

\* result = find_best_entrega_qr(qr_result)
FindBest ==
    /\ pc = "find_best"
    /\ result' = find_best_entrega_qr(qr_result)
    /\ pc' = "returned"
    /\ UNCHANGED <<template_result, survey_template, ocr_responses, api_responses,
                   qr_data, entrega_id, entry, image_qrs, qr_result, ocr_result,
                   save_result, s3_url, posted, calls>>
    /\ UNCHANGED httpVars
    /\ UNCHANGED other

NextRun ==
    \/ QrScan \/ UploadS3 \/ ApiGetFirst \/ ApiGet \/ GeminiOcr \/ Whisper
    \/ GeminiText \/ Format \/ ApiPost \/ DbInsert \/ Except \/ FindBest

SpecRun == InitRun /\ [][NextRun]_vars

(***************************************************************************)
(* POST /ocr/encuesta (ocr_router.py, procesar_encuesta_ocr)               *)
(***************************************************************************)

S_image_slash == <<"i", "m", "a", "g", "e", "/">>

\* str.startswith
StartsWith(s, prefix) ==
    Len(s) >= Len(prefix) /\ SubSeq(s, 1, Len(prefix)) = prefix

\* the content type of an upload; None when the client sent none
ContentTypes ==
    {PyS(S_image_slash \o <<"p", "n", "g">>),
     PyS(<<"t", "e", "x", "t", "/", "p", "l", "a", "i", "n">>),
     PyS(<<"i", "m", "a", "g", "e">>),
     PyNone}

\* the bytes of an upload: the picture they encode (the QR symbols on it), or
\* bytes that encode no picture
NotAnImage == [decodable |-> FALSE, image |-> <<>>]
Picture(image) == [decodable |-> TRUE, image |-> image]

Uploads ==
    {[content_type |-> c, contents |-> b] :
        c \in ContentTypes,
        b \in {NotAnImage} \cup {Picture(i) : i \in SeqsUpTo(Symbols, 1)}}

\* cv2.imdecode(nparr, cv2.IMREAD_COLOR): the picture, None for bytes that
\* encode none, or an error of the decoder on such bytes (an empty buffer)
Imdecode(contents) ==
    IF contents.decodable
    THEN {[raised |-> FALSE, image |-> Return(contents.image)]}
    ELSE {[raised |-> FALSE, image |-> Raise], [raised |-> TRUE, image |-> Raise]}

\* the JSONResponse of lines 297-307
failure_response(resultado) ==
    [status_code |-> 400,
     content |-> [success |-> FALSE,
                  error |-> Get(resultado, "error", "Error desconocido"),
                  step_failed |-> Get(resultado, "step", "unknown")]]

\* the keys of resultado read by lines 313-329
SuccessKeys ==
    {"entrega_id", "encuesta", "total_preguntas", "responses_detected",
     "processing_steps", "ocr_result", "api_responses"}

\* the JSONResponse of lines 313-330
success_response(resultado) ==
    [status_code |-> 200,
     content |-> [success |-> TRUE, entrega_id |-> resultado.entrega_id,
                  responses_saved |->
                     Get(Get(resultado, "save_result", EmptyDict), "success", FALSE)]]

\* lines 332-336: except Exception, which HTTPException is a subclass of
endpoint_exception == [status_code |-> 500, content |-> [success |-> FALSE]]

InitEndpoint ==
    /\ entry = "image"
    /\ pc = "validate"
    /\ file \in Uploads
    /\ response = Pending
    /\ other = Pending
    /\ image_qrs = <<>>
    /\ entrega_id = PyNone
    /\ qr_result = Pending
    /\ qr_data = <<>>
    /\ template_result = PyNone
    /\ survey_template = PyNone
    /\ ocr_responses = OcrList(<<>>)
    /\ api_responses = Return(<<>>)
    /\ ocr_result = Pending
    /\ save_result = Pending
    /\ s3_url = PyNone
    /\ posted = <<>>
    /\ calls = <<>>
    /\ result = Pending

\* lines 276-280: content_type.startswith raises for None; a content type
\* that is no image type raises HTTPException(400) inside the try block
ValidateUpload ==
    /\ pc = "validate"
    /\ pc' = (IF file.content_type.t = "str"
                 /\ StartsWith(file.content_type.s, S_image_slash)
              THEN "decode" ELSE "endpoint_except")
    /\ UNCHANGED <<template_result, survey_template, ocr_responses, api_responses,
                   qr_data, entrega_id>>
    /\ UNCHANGED runVars
    /\ UNCHANGED httpVars
    /\ UNCHANGED other

\* lines 283-291: image is None raises HTTPException(400) inside the try block
DecodeImage ==
    /\ pc = "decode"
    /\ \E decoded \in Imdecode(file.contents) :
          IF decoded.raised \/ decoded.image.raised
          THEN pc' = "endpoint_except" /\ image_qrs' = image_qrs
          ELSE pc' = "qr_scan" /\ image_qrs' = decoded.image.value
    /\ UNCHANGED <<template_result, survey_template, ocr_responses, api_responses,
                   qr_data, entrega_id, entry, qr_result, ocr_result, save_result,
                   s3_url, posted, calls, result>>
    /\ UNCHANGED httpVars
    /\ UNCHANGED other

\* lines 294-330: the response built from the result of process_survey_image
Respond ==
    /\ pc = "returned"
    /\ file # Pending
    /\ IF ~Get(result, "success", FALSE)
       THEN response' = failure_response(result) /\ pc' = "responded"
       ELSE IF SuccessKeys \subseteq DOMAIN result
       THEN response' = success_response(result) /\ pc' = "responded"
       ELSE response' = response /\ pc' = "endpoint_except"  \* KeyError
    /\ UNCHANGED <<template_result, survey_template, ocr_responses, api_responses,
                   qr_data, entrega_id, file>>
    /\ UNCHANGED runVars
    /\ UNCHANGED other

\* lines 332-336
EndpointExcept ==
    /\ pc = "endpoint_except"
    /\ response' = endpoint_exception
    /\ pc' = "responded"
    /\ UNCHANGED <<template_result, survey_template, ocr_responses, api_responses,
                   qr_data, entrega_id, file>>
    /\ UNCHANGED runVars
    /\ UNCHANGED other

NextEndpoint ==
    \/ ValidateUpload \/ DecodeImage \/ QrScan \/ ApiGet \/ GeminiOcr \/ Format
    \/ ApiPost \/ Except \/ Respond \/ EndpointExcept

SpecEndpoint == InitEndpoint /\ [][NextEndpoint]_vars

(***************************************************************************)
(* Two runs of process_survey_image in progress at once.  The locals of    *)
(* the run that takes the next step are the variables of a run; the locals *)
(* of the run that waits are held in other.  Switch hands the step to the  *)
(* run that waited, so that the steps of the two runs interleave freely.   *)
(***************************************************************************)

\* the locals of the run that is stepping, as the record kept while it waits
Suspended(id) ==
    [id |-> id, pc |-> pc, template_result |-> template_result,
     survey_template |-> survey_template, ocr_responses |-> ocr_responses,
     api_responses |-> api_responses, entrega_id |-> entrega_id,
     entry |-> entry, image_qrs |-> image_qrs, qr_result |-> qr_result,
     ocr_result |-> ocr_result, save_result |-> save_result, s3_url |-> s3_url,
     posted |-> posted, calls |-> calls, result |-> result]

\* the locals of a run of process_survey_image on an image, before line 25
Started(id, image) ==
    [id |-> id, pc |-> "qr_scan", template_result |-> PyNone,
     survey_template |-> PyNone, ocr_responses |-> OcrList(<<>>),
     api_responses |-> Return(<<>>), entrega_id |-> PyNone,
     entry |-> "image", image_qrs |-> image, qr_result |-> Pending,
     ocr_result |-> Pending, save_result |-> Pending, s3_url |-> PyNone,
     posted |-> <<>>, calls |-> <<>>, result |-> Pending]

\* the images of the two requests: one prints a UUID, the other a token
PairImages == <<<<Symbol(K_uuid, Box(2, 2))>>, <<Symbol(K_token, PyNone)>>>>

InitPair ==
    /\ pc = Started(1, PairImages[1]).pc
    /\ template_result = Started(1, PairImages[1]).template_result
    /\ survey_template = Started(1, PairImages[1]).survey_template
    /\ ocr_responses = Started(1, PairImages[1]).ocr_responses
    /\ api_responses = Started(1, PairImages[1]).api_responses
    /\ entrega_id = Started(1, PairImages[1]).entrega_id
    /\ entry = Started(1, PairImages[1]).entry
    /\ image_qrs = Started(1, PairImages[1]).image_qrs
    /\ qr_result = Started(1, PairImages[1]).qr_result
    /\ ocr_result = Started(1, PairImages[1]).ocr_result
    /\ save_result = Started(1, PairImages[1]).save_result
    /\ s3_url = Started(1, PairImages[1]).s3_url
    /\ posted = Started(1, PairImages[1]).posted
    /\ calls = Started(1, PairImages[1]).calls
    /\ result = Started(1, PairImages[1]).result
    /\ other = Started(2, PairImages[2])
    /\ qr_data = <<>>
    /\ file = Pending
    /\ response = Pending

\* a variant in which the template is a field of the shared client object
\* instead of a local of the run
Switch_shared_template ==
    /\ other # Pending
    /\ other' = Suspended(3 - other.id)
    /\ pc' = other.pc
    /\ template_result' = other.template_result
    /\ survey_template' = survey_template
    /\ ocr_responses' = other.ocr_responses
    /\ api_responses' = other.api_responses
    /\ entrega_id' = other.entrega_id
    /\ entry' = other.entry
    /\ image_qrs' = other.image_qrs
    /\ qr_result' = other.qr_result
    /\ ocr_result' = other.ocr_result
    /\ save_result' = other.save_result
    /\ s3_url' = other.s3_url
    /\ posted' = other.posted
    /\ calls' = other.calls
    /\ result' = other.result
    /\ UNCHANGED <<qr_data, file, response>>

\* the next step is taken by the run that waited
Switch ==
    /\ other # Pending
    /\ other' = Suspended(3 - other.id)
    /\ pc' = other.pc
    /\ template_result' = other.template_result
    /\ survey_template' = other.survey_template
    /\ ocr_responses' = other.ocr_responses
    /\ api_responses' = other.api_responses
    /\ entrega_id' = other.entrega_id
    /\ entry' = other.entry
    /\ image_qrs' = other.image_qrs
    /\ qr_result' = other.qr_result
    /\ ocr_result' = other.ocr_result
    /\ save_result' = other.save_result
    /\ s3_url' = other.s3_url
    /\ posted' = other.posted
    /\ calls' = other.calls
    /\ result' = other.result
    /\ UNCHANGED <<qr_data, file, response>>

NextPair ==
    \/ QrScan \/ ApiGet \/ GeminiOcr \/ Format \/ ApiPost \/ Except \/ Switch

SpecPair == InitPair /\ [][NextPair]_vars

(***************************************************************************)
(* Properties of the reconciler, checked under Spec                        *)
(***************************************************************************)

Done == pc = "done"

\* the questions of the template in use (none when there is no template)
Preguntas == Get(survey_template, "preguntas", <<>>)

\* the extracted answers that format_responses_for_api iterates
AnswersOf(ocr) ==
    IF ocr.kind = "dict" THEN Get(ocr.d, "preguntas", <<>>) ELSE ocr.items

\* the same input with its answers replaced
WithAnswers(ocr, l) ==
    IF ocr.kind = "dict"
    THEN OcrDict([k \in DOMAIN ocr.d |-> IF k = "preguntas" THEN l ELSE ocr.d[k]])
    ELSE OcrList(l)

Remove(l, i) == SubSeq(l, 1, i - 1) \o SubSeq(l, i + 1, Len(l))

Respuesta(a) == Get(a, "respuesta", PyNone)

ItemsOf(a) == IF Respuesta(a).t = "list" THEN Respuesta(a).l ELSE <<Respuesta(a)>>

IsOpen(p) == p.tipo.t = "str" /\ Lower(p.tipo.s) \in {S_abierta, S_completar}

IsChoice(p) == p.tipo.t = "str" /\ Lower(p.tipo.s) \notin {S_abierta, S_completar}

\* the answer carries a pregunta_id that is the id of no template question
UnknownPreguntaId(a) ==
    /\ "pregunta_id" \in DOMAIN a
    /\ \A q \in DOMAIN Preguntas : Preguntas[q].id # a.pregunta_id

\* the answer's orden (None when it has none) is the orden of no question
UnknownOrden(a) ==
    \A q \in DOMAIN Preguntas : Preguntas[q].orden # Get(a, "orden", PyNone)

\* answer i appends nothing, and the outcome is that of the input without it
Isolated(i) ==
    LET answers == AnswersOf(ocr_responses)
    IN  /\ MapPregunta(answers[i], Preguntas) = Return(<<>>)
        /\ api_responses =
              format_responses_for_api(
                  WithAnswers(ocr_responses, Remove(answers, i)), survey_template)

\* C1 as stated: an answer whose pregunta_id is the id of no template
\* question contributes no response, whatever its orden holds or lacks, and
\* the responses of the other answers are those of the input without it.
C1_UnknownIdIsolated ==
    Done =>
        \A i \in DOMAIN AnswersOf(ocr_responses) :
            UnknownPreguntaId(AnswersOf(ocr_responses)[i]) => Isolated(i)

\* C1 amended: an answer whose pregunta_id is the id of no template question
\* and whose orden (None when missing) is the orden of no template question
\* contributes no response, and the outcome of the call is the outcome for
\* the input with that answer removed.
C1_UnmatchedAnswerIsolated ==
    Done =>
        \A i \in DOMAIN AnswersOf(ocr_responses) :
            LET a == AnswersOf(ocr_responses)[i]
            IN  UnknownPreguntaId(a) /\ UnknownOrden(a) => Isolated(i)

\* an unmatched answer that has a value and an orden, beside an answer that
\* is emitted
C1_Witness ==
    /\ Done
    /\ ~api_responses.raised
    /\ api_responses.value # <<>>
    /\ \E i \in DOMAIN AnswersOf(ocr_responses) :
           LET a == AnswersOf(ocr_responses)[i]
           IN  /\ UnknownPreguntaId(a) /\ UnknownOrden(a)
               /\ "orden" \in DOMAIN a
               /\ Truthy(Respuesta(a))

\* C2: an answer whose pregunta_id is the id of template question Q emits
\* only responses with preguntaId = Q.id, also when its orden is the orden
\* of another question.
C2_IdentifierMatchWins ==
    Done =>
        \A i \in DOMAIN AnswersOf(ocr_responses), q \in DOMAIN Preguntas :
            LET a == AnswersOf(ocr_responses)[i]
            IN  ("pregunta_id" \in DOMAIN a /\ a.pregunta_id = Preguntas[q].id) =>
                    /\ \A r \in Range(MapPregunta(a, Preguntas).value) :
                           r.preguntaId = Preguntas[q].id
                    /\ Len(AnswersOf(ocr_responses)) = 1 =>
                           \A r \in Range(api_responses.value) :
                               r.preguntaId = Preguntas[q].id

\* a single answer with the id of one question and the orden of another,
\* emitted under the id's question
C2_Witness ==
    /\ Done
    /\ Len(AnswersOf(ocr_responses)) = 1
    /\ api_responses.value # <<>>
    /\ \E q, q2 \in DOMAIN Preguntas :
           LET a == AnswersOf(ocr_responses)[1]
           IN  /\ q # q2
               /\ Preguntas[q].id # Preguntas[q2].id
               /\ DOMAIN a = {"pregunta_id", "orden", "respuesta"}
               /\ a.pregunta_id = Preguntas[q].id
               /\ a.orden = Preguntas[q2].orden
               /\ api_responses.value[1].preguntaId = Preguntas[q].id

\* the item is an all-digit string naming a position 1..n of the options
InRangeIndex(item, opciones) ==
    /\ IsDigit(Str(item))
    /\ 1 <= IntOf(item)
    /\ IntOf(item) <= Len(opciones)

NoOpcionId(item, opciones) ==
    \A o \in DOMAIN opciones : Lower(Str(opciones[o].id)) # Lower(Str(item))

\* C7: for a choice question with n options, an item that is an all-digit
\* string k, 1 <= k <= n, equal to no option id, emits exactly one response,
\* whose opcionId is the id of the k-th option in template order.
C7_NumericIndexMatch ==
    Done =>
        \A i \in DOMAIN AnswersOf(ocr_responses) :
            LET a == AnswersOf(ocr_responses)[i]
                found == FindPreguntaTemplate(a, Preguntas)
                p == Preguntas[found]
            IN  (Truthy(Respuesta(a)) /\ found # 0 /\ IsChoice(p)) =>
                    \A j \in DOMAIN ItemsOf(a) :
                        LET item == ItemsOf(a)[j]
                            expected ==
                                Return(<<[preguntaId |-> p.id,
                                          opcionId |-> p.opciones[ParseInt(item.s)].id]>>)
                        IN  (/\ item.t = "str"
                             /\ InRangeIndex(item, p.opciones)
                             /\ NoOpcionId(item, p.opciones)) =>
                                /\ MapItem(item, p) = expected
                                /\ (Len(AnswersOf(ocr_responses)) = 1 /\ Len(ItemsOf(a)) = 1)
                                      => api_responses = expected

\* options A, B, C and the single answer "2": B is emitted
C7_Witness ==
    /\ Done
    /\ Len(Preguntas) >= 1
    /\ [o \in DOMAIN Preguntas[1].opciones |-> Preguntas[1].opciones[o].id]
          = <<PyS(<<"A">>), PyS(<<"B">>), PyS(<<"C">>)>>
    /\ Len(AnswersOf(ocr_responses)) = 1
    /\ Respuesta(AnswersOf(ocr_responses)[1]) = PyS(<<"2">>)
    /\ api_responses =
          Return(<<[preguntaId |-> Preguntas[1].id, opcionId |-> PyS(<<"B">>)]>>)

\* the first option, in template order, whose text occurs in the item
FirstTextHit(item, opciones) ==
    FirstIndex(LAMBDA o : /\ opciones[o].texto.t = "str"
                          /\ Contains(Lower(opciones[o].texto.s), Lower(Str(item))),
               Len(opciones))

\* C8: an item of a choice answer that matches no option id and is no
\* in-range index emits the first option, in template order, whose text
\* occurs in it ignoring case, and nothing when no option text occurs in it.
C8_SubstringTextMatch ==
    Done =>
        \A i \in DOMAIN AnswersOf(ocr_responses) :
            LET a == AnswersOf(ocr_responses)[i]
                found == FindPreguntaTemplate(a, Preguntas)
                p == Preguntas[found]
            IN  (Truthy(Respuesta(a)) /\ found # 0 /\ IsChoice(p)) =>
                    \A j \in DOMAIN ItemsOf(a) :
                        LET item == ItemsOf(a)[j]
                            hit == FirstTextHit(item, p.opciones)
                        IN  (NoOpcionId(item, p.opciones)
                                /\ ~InRangeIndex(item, p.opciones)) =>
                                MapItem(item, p) =
                                    IF hit = 0 THEN Return(<<>>)
                                    ELSE Return(<<[preguntaId |-> p.id,
                                                   opcionId |-> p.opciones[hit].id]>>)

\* the same statement on the questions whose options all have a text
C8_SubstringTextMatchWithTexts ==
    Done =>
        \A i \in DOMAIN AnswersOf(ocr_responses) :
            LET a == AnswersOf(ocr_responses)[i]
                found == FindPreguntaTemplate(a, Preguntas)
                p == Preguntas[found]
            IN  (/\ Truthy(Respuesta(a)) /\ found # 0 /\ IsChoice(p)
                 /\ \A o \in DOMAIN p.opciones : p.opciones[o].texto.t = "str") =>
                    \A j \in DOMAIN ItemsOf(a) :
                        LET item == ItemsOf(a)[j]
                            hit == FirstTextHit(item, p.opciones)
                        IN  (NoOpcionId(item, p.opciones)
                                /\ ~InRangeIndex(item, p.opciones)) =>
                                MapItem(item, p) =
                                    IF hit = 0 THEN Return(<<>>)
                                    ELSE Return(<<[preguntaId |-> p.id,
                                                   opcionId |-> p.opciones[hit].id]>>)

\* the raw value is not missing, null, an empty string or an empty list
NonEmpty(a) ==
    /\ "respuesta" \in DOMAIN a
    /\ a.respuesta \notin {PyNone, PyS(<<>>), PyL(<<>>)}

\* C9: for a resolved question of type 'abierta' or 'completar' (any letter
\* case) and a non-empty raw answer of any type (string, number, list),
\* exactly one response {preguntaId, texto: str(raw value)} is emitted and no
\* opcionId response; a raw string is its own texto.
C9_OpenTextAlwaysEmitted ==
    Done =>
        \A i \in DOMAIN AnswersOf(ocr_responses) :
            LET a == AnswersOf(ocr_responses)[i]
                found == FindPreguntaTemplate(a, Preguntas)
                p == Preguntas[found]
            IN  (found # 0 /\ IsOpen(p) /\ NonEmpty(a)) =>
                    /\ MapPregunta(a, Preguntas) =
                          Return(<<[preguntaId |-> p.id,
                                    texto |-> PyS(Str(a.respuesta))]>>)
                    /\ a.respuesta.t = "str" =>
                          MapPregunta(a, Preguntas).value[1].texto = a.respuesta

\* the same statement for the raw values Python takes as true
C9_OpenTextEmittedWhenTruthy ==
    Done =>
        \A i \in DOMAIN AnswersOf(ocr_responses) :
            LET a == AnswersOf(ocr_responses)[i]
                found == FindPreguntaTemplate(a, Preguntas)
                p == Preguntas[found]
            IN  (found # 0 /\ IsOpen(p) /\ Truthy(Respuesta(a))) =>
                    MapPregunta(a, Preguntas) =
                        Return(<<[preguntaId |-> p.id,
                                  texto |-> PyS(Str(a.respuesta))]>>)

\* the inputs of the end-to-end example
EndToEndInput ==
    /\ template_result = FetchOk(<<Raw_q1_abierta, Raw_q2_opcion>>)
    /\ ocr_responses =
          OcrList(<<[pregunta_id |-> PyS(S_q1), respuesta |-> PyS(S_hola)],
                    [pregunta_id |-> PyS(S_q2), respuesta |-> PyS(S_Azul)]>>)

\* C10: the fetched template with open question q1 and choice question q2
\* (o1 'Rojo', o2 'Azul'), normalized and reconciled with the answers
\* q1: 'hola', q2: 'Azul', yields [{q1, texto 'hola'}, {q2, opcionId o2}].
C10_EndToEnd ==
    (Done /\ EndToEndInput) =>
        api_responses =
            Return(<<[preguntaId |-> PyS(S_q1), texto |-> PyS(S_hola)],
                     [preguntaId |-> PyS(S_q2), opcionId |-> PyS(S_o2)]>>)

C10_Witness == Done /\ EndToEndInput /\ Len(api_responses.value) = 2

(***************************************************************************)
(* Properties of the identifier extractor, checked under SpecQR            *)
(***************************************************************************)

Extracted == pc = "extracted_id"

\* the whole string is a canonical UUID
IsCanonicalUuid(s) == Len(s) = 36 /\ UuidAt(s, 1)

\* the whole string is 10 to 50 letters, digits, hyphens and underscores
IsIdToken(s) ==
    /\ Len(s) >= 10
    /\ Len(s) <= 50
    /\ \A k \in 1..Len(s) : s[k] \in IdChars

ValidIdentifier(s) == IsCanonicalUuid(s) \/ IsIdToken(s)

\* a canonical UUID occurs somewhere in the string
HoldsUuid(s) == \E i \in 1..Len(s) : UuidAt(s, i)

\* an entregaId marker or an entrega path with an identifier occurs
HoldsMarker(s) == \E i \in 1..Len(s) : GroupEntregaId(s, i).len > 0

HoldsPath(s) == \E i \in 1..Len(s) : GroupUrlEntrega(s, i).len > 0

\* C3 as stated: a payload that as a whole is a valid identifier and carries
\* no marker is returned whole and unchanged.
C3_BareIdentifierUnchanged ==
    (Extracted /\ ValidIdentifier(qr_data)
        /\ ~HoldsMarker(qr_data) /\ ~HoldsPath(qr_data)) =>
        entrega_id = PyS(qr_data)

\* C3 amended: a payload that as a whole is a valid identifier and carries
\* no marker is returned whole and unchanged when it is itself a canonical
\* UUID or holds no canonical UUID inside it.
C3_BareIdentifierWithoutInnerUuid ==
    (Extracted /\ ValidIdentifier(qr_data)
        /\ ~HoldsMarker(qr_data) /\ ~HoldsPath(qr_data)
        /\ (IsCanonicalUuid(qr_data) \/ ~HoldsUuid(qr_data))) =>
        entrega_id = PyS(qr_data)

\* a generic token of more than 10 characters, returned whole
C3_Witness ==
    /\ Extracted
    /\ IsIdToken(qr_data) /\ ~HoldsUuid(qr_data) /\ Len(qr_data) > 10
    /\ entrega_id = PyS(qr_data)

\* the marker 'entregaId=' at position i, followed by a canonical UUID
MarkerUuidAt(s, i) ==
    /\ i + 9 <= Len(s)
    /\ SubSeq(s, i, i + 9) = S_entregaId \o <<"=">>
    /\ UuidAt(s, i + 10)

UuidAfterMarker(s, i) == SubSeq(s, i + 10, i + 45)

\* C4 as stated: when 'entregaId=' is followed by a canonical UUID u, with
\* any text before the marker and any text after u, exactly u is returned.
C4_MarkerUuidExact ==
    Extracted =>
        \A i \in 1..Len(qr_data) :
            MarkerUuidAt(qr_data, i) =>
                entrega_id = PyS(UuidAfterMarker(qr_data, i))

\* C4 amended: exactly u is returned when the text after u does not begin
\* with a hexadecimal digit or a hyphen and no entregaId marker followed by
\* such a character occurs before the marker.
C4_MarkerUuidDelimited ==
    Extracted =>
        \A i \in 1..Len(qr_data) :
            (/\ MarkerUuidAt(qr_data, i)
             /\ (i + 46 > Len(qr_data) \/ qr_data[i + 46] \notin HexDashChars)
             /\ \A j \in 1..(i - 1) : GroupEntregaId(qr_data, j).len = 0) =>
                entrega_id = PyS(UuidAfterMarker(qr_data, i))

\* text before the marker, and u returned
C4_Witness ==
    /\ Extracted
    /\ \E i \in 2..Len(qr_data) :
           /\ MarkerUuidAt(qr_data, i)
           /\ \A j \in 1..(i - 1) : GroupEntregaId(qr_data, j).len = 0
           /\ RunLen(qr_data, 1, IdChars, Len(qr_data)) >= 10
           /\ entrega_id = PyS(UuidAfterMarker(qr_data, i))

\* a maximal run of identifier characters, 10 to 50 long, starts at i
DelimitedTokenAt(s, i) ==
    /\ i = 1 \/ s[i - 1] \notin IdChars
    /\ RunLen(s, i, IdChars, Len(s)) >= 10
    /\ RunLen(s, i, IdChars, Len(s)) <= 50

\* the payload is no valid identifier and holds no marker-, path- or
\* UUID-embedded identifier and no delimited token of 10 to 50 characters
NotIdentifierShaped(s) ==
    /\ ~ValidIdentifier(s)
    /\ ~HoldsMarker(s) /\ ~HoldsPath(s) /\ ~HoldsUuid(s)
    /\ \A i \in 1..Len(s) : ~DelimitedTokenAt(s, i)

\* C5: for every payload that is not identifier-shaped, such as a payload
\* shorter than 10 characters or a single run of more than 50 identifier
\* characters, nothing (None) is returned.
C5_NonIdentifierYieldsNone ==
    (Extracted /\ NotIdentifierShaped(qr_data)) => entrega_id = PyNone

\* the candidate of the k-th pattern in the stated priority order
Priority == <<"entrega_id", "url_entrega", "uuid", "simple_id">>

Candidate(k) == FindFirst(Priority[k], qr_data)

\* C6 as stated: the first pattern, in the order marker, path, UUID, generic
\* token, that yields a match decides the outcome; the candidate of a
\* lower-priority pattern is never returned once a higher one matched.
C6_FirstMatchDecides ==
    Extracted =>
        LET first == FirstIndex(LAMBDA k : Candidate(k).found, Len(Priority))
        IN  first # 0 => entrega_id \in {PyS(Candidate(first).group), PyNone}

\* C6 amended: the first pattern in that order whose first match passes the
\* shape validator decides the outcome: its candidate is the identifier
\* returned, and None is returned when no pattern yields a valid candidate.
C6_FirstValidMatchDecides ==
    Extracted =>
        LET first == FirstIndex(LAMBDA k : /\ Candidate(k).found
                                           /\ is_valid_entrega_id(Candidate(k).group),
                                Len(Priority))
        IN  entrega_id = IF first # 0 THEN PyS(Candidate(first).group) ELSE PyNone

\* two patterns yield different valid candidates, the higher one is returned
C6_Witness ==
    /\ Extracted
    /\ \E k, m \in 1..Len(Priority) :
           /\ k < m
           /\ Candidate(k).found /\ is_valid_entrega_id(Candidate(k).group)
           /\ Candidate(m).found /\ is_valid_entrega_id(Candidate(m).group)
           /\ Candidate(k).group # Candidate(m).group
           /\ entrega_id = PyS(Candidate(k).group)

(***************************************************************************)
(* Further properties of the normalizer and reconciler, checked under Spec *)
(***************************************************************************)

\* C14: reconciliation never fails: for every template of
\* process_survey_template and every extracted-answer input,
\* format_responses_for_api returns a list and raises no error.
C14_ReconciliationNeverRaises == Done => ~api_responses.raised

\* an entry r of the result is well formed for template question p
WellFormedFor(r, p) ==
    /\ r.preguntaId = p.id
    /\ \/ DOMAIN r = {"preguntaId", "texto"} /\ IsOpen(p)
       \/ /\ DOMAIN r = {"preguntaId", "opcionId"}
          /\ ~IsOpen(p)
          /\ \E j \in 1..Len(p.opciones) : p.opciones[j].id = r.opcionId

\* C15: every element of the returned list has the id of a template question
\* and exactly one of texto or opcionId; an opcionId is the id of an option of
\* that question, which is not of open type; a texto belongs to a question of
\* open type.
C15_WellFormedEntries ==
    (Done /\ ~api_responses.raised) =>
        \A i \in 1..Len(api_responses.value) :
            \E k \in 1..Len(Preguntas) :
                WellFormedFor(api_responses.value[i], Preguntas[k])

\* a returned list that holds an open-text entry and an option entry
C15_Witness ==
    /\ Done /\ ~api_responses.raised
    /\ \E i, j \in 1..Len(api_responses.value) :
          /\ "texto" \in DOMAIN api_responses.value[i]
          /\ "opcionId" \in DOMAIN api_responses.value[j]

RECURSIVE Flatten(_)
Flatten(ll) == IF ll = <<>> THEN <<>> ELSE Head(ll) \o Flatten(Tail(ll))

\* the responses of the one-answer input <<a>>
Single(a) == format_responses_for_api(OcrList(<<a>>), survey_template).value

\* the responses of answer a, item by item when a is a multi-valued answer
\* to a choice question
PerItem(a) ==
    LET q == FindPreguntaTemplate(a, Preguntas)
    IN  IF Respuesta(a).t = "list" /\ Respuesta(a).l # <<>> /\ q # 0
           /\ IsChoice(Preguntas[q])
        THEN Flatten([j \in 1..Len(Respuesta(a).l) |->
                        Single([a EXCEPT !.respuesta = Respuesta(a).l[j]])])
        ELSE Single(a)

\* C16: the returned list is ordered by the position of the originating
\* answer in the input, and the responses of one multi-valued answer are
\* contiguous, in the order of the items of its list.
C16_EmissionOrder ==
    (Done /\ ~api_responses.raised) =>
        LET answers == AnswersOf(ocr_responses)
        IN  api_responses.value =
                Flatten([i \in 1..Len(answers) |-> PerItem(answers[i])])

\* answers given for q2 then q1 on a template listing q1 first, the first
\* one multi-valued with items naming option o2 before option o1
C16_Witness ==
    /\ Done /\ ~api_responses.raised
    /\ Len(Preguntas) = 2 /\ Preguntas[1].id = PyS(S_q1)
    /\ Len(api_responses.value) = 3
    /\ api_responses.value[1] = [preguntaId |-> PyS(S_q2), opcionId |-> PyS(S_o2)]
    /\ api_responses.value[2] = [preguntaId |-> PyS(S_q2), opcionId |-> PyS(S_o1)]
    /\ api_responses.value[3].preguntaId = PyS(S_q1)

\* the raw question list of a fetch result
RawPreguntas == Get(template_result, "preguntas", <<>>)

OrderPreserved ==
    (pc # "fetched" /\ template_result.success) =>
        /\ Len(Preguntas) = Len(RawPreguntas)
        /\ \A i \in 1..Len(RawPreguntas) :
              LET raw == RawPreguntas[i]
                  raw_opciones == Get(raw, "opciones", <<>>)
              IN  /\ Preguntas[i].id = Get(raw, "id", PyNone)
                  /\ Len(Preguntas[i].opciones) = Len(raw_opciones)
                  /\ \A j \in 1..Len(raw_opciones) :
                        Preguntas[i].opciones[j].id = Get(raw_opciones[j], "id", PyNone)

FirstIdHit(item, opciones) ==
    FirstIndex(LAMBDA o : Lower(Str(opciones[o].id)) = Lower(Str(item)),
               Len(opciones))

\* the option an item selects under the precedence id, index, text (0: none)
Selected(item, opciones) ==
    IF FirstIdHit(item, opciones) # 0 THEN FirstIdHit(item, opciones)
    ELSE IF InRangeIndex(item, opciones) THEN IntOf(item)
    ELSE FirstTextHit(item, opciones)

ByPrecedence(item, p) ==
    IF Selected(item, p.opciones) = 0 THEN <<>>
    ELSE <<[preguntaId |-> p.id,
            opcionId |-> p.opciones[Selected(item, p.opciones)].id]>>

\* C22: each item of a choice answer yields the option of the first of id
\* equality, 1-based index and text containment that succeeds, and so at most
\* one response; an all-digit item equal to an option id yields that option,
\* not the option at that index; a scalar answer is a one-item list.  An item
\* on which the matching raises had no id match and no index match.
C22_MatchingPrecedence ==
    Done =>
        \A i \in DOMAIN AnswersOf(ocr_responses) :
            LET a == AnswersOf(ocr_responses)[i]
                found == FindPreguntaTemplate(a, Preguntas)
                p == Preguntas[found]
                items == ItemsOf(a)
            IN  (Truthy(Respuesta(a)) /\ found # 0 /\ IsChoice(p)) =>
                    /\ \A j \in DOMAIN items :
                          LET m == MapItem(items[j], p)
                          IN  IF m.raised
                              THEN /\ FirstIdHit(items[j], p.opciones) = 0
                                   /\ ~InRangeIndex(items[j], p.opciones)
                              ELSE /\ m.value = ByPrecedence(items[j], p)
                                   /\ Len(m.value) <= 1
                    /\ (Len(AnswersOf(ocr_responses)) = 1 /\ ~api_responses.raised) =>
                          api_responses.value =
                              Flatten([j \in DOMAIN items |-> ByPrecedence(items[j], p)])

\* options with ids "2" and "1" in that order and the scalar answer "2": the
\* first option is emitted, not the second
C22_Witness ==
    /\ Done
    /\ Len(Preguntas) >= 1
    /\ [o \in DOMAIN Preguntas[1].opciones |-> Preguntas[1].opciones[o].id]
          = <<PyS(<<"2">>), PyS(<<"1">>)>>
    /\ Len(AnswersOf(ocr_responses)) = 1
    /\ Respuesta(AnswersOf(ocr_responses)[1]) = PyS(<<"2">>)
    /\ api_responses =
          Return(<<[preguntaId |-> Preguntas[1].id, opcionId |-> PyS(<<"2">>)]>>)

\* the item is an all-digit string that names no position 1..n of the options
OutOfRangeIndex(item, opciones) ==
    /\ IsDigit(Str(item))
    /\ ~InRangeIndex(item, opciones)

\* C23: for a choice question with n options, an all-digit item whose value
\* is 0 or greater than n and which equals no option id produces no response,
\* whatever the option texts are, and raises no error.
C23_OutOfRangeExcluded ==
    Done =>
        \A i \in DOMAIN AnswersOf(ocr_responses) :
            LET a == AnswersOf(ocr_responses)[i]
                found == FindPreguntaTemplate(a, Preguntas)
                p == Preguntas[found]
            IN  (Truthy(Respuesta(a)) /\ found # 0 /\ IsChoice(p)) =>
                    \A j \in DOMAIN ItemsOf(a) :
                        LET item == ItemsOf(a)[j]
                        IN  (OutOfRangeIndex(item, p.opciones)
                                /\ NoOpcionId(item, p.opciones)) =>
                                /\ MapItem(item, p) = Return(<<>>)
                                /\ (Len(AnswersOf(ocr_responses)) = 1 /\ Len(ItemsOf(a)) = 1)
                                      => api_responses = Return(<<>>)

\* the same statement on the questions whose options all have a text, none
\* of which occurs in the item
C23_OutOfRangeWithoutTextHit ==
    Done =>
        \A i \in DOMAIN AnswersOf(ocr_responses) :
            LET a == AnswersOf(ocr_responses)[i]
                found == FindPreguntaTemplate(a, Preguntas)
                p == Preguntas[found]
            IN  (/\ Truthy(Respuesta(a)) /\ found # 0 /\ IsChoice(p)
                 /\ \A o \in DOMAIN p.opciones : p.opciones[o].texto.t = "str") =>
                    \A j \in DOMAIN ItemsOf(a) :
                        LET item == ItemsOf(a)[j]
                        IN  (/\ OutOfRangeIndex(item, p.opciones)
                             /\ NoOpcionId(item, p.opciones)
                             /\ FirstTextHit(item, p.opciones) = 0) =>
                                /\ MapItem(item, p) = Return(<<>>)
                                /\ (Len(AnswersOf(ocr_responses)) = 1 /\ Len(ItemsOf(a)) = 1)
                                      => api_responses = Return(<<>>)

\* the answer "7" to a two-option question one of whose texts is "7": the
\* out-of-range item is emitted through the text match
C23_TextHit ==
    /\ Done
    /\ Len(AnswersOf(ocr_responses)) = 1
    /\ Respuesta(AnswersOf(ocr_responses)[1]) = PyS(<<"7">>)
    /\ api_responses = Return(<<[preguntaId |-> PyS(S_q1), opcionId |-> PyS(S_o1)]>>)

\* the first template question whose orden is the answer's orden (0: none)
FirstWithOrden(a) ==
    FirstIndex(LAMBDA q : Preguntas[q].orden = a.orden, Len(Preguntas))

PositionalMatch(a) ==
    IF "orden" \in DOMAIN a
    THEN FindPreguntaTemplate(a, Preguntas) = FirstWithOrden(a)
    ELSE /\ FindPreguntaTemplate(a, Preguntas) = 0
         /\ MapPregunta(a, Preguntas) = Return(<<>>)
         /\ Len(AnswersOf(ocr_responses)) = 1 => api_responses = Return(<<>>)

\* C24: an answer without pregunta_id resolves to the template question
\* whose orden equals the answer's orden, and only when it carries an orden:
\* an answer with neither pregunta_id nor orden produces no response for
\* every template, also one with a question whose orden is absent.
C24_PositionalMatch ==
    Done =>
        \A i \in DOMAIN AnswersOf(ocr_responses) :
            LET a == AnswersOf(ocr_responses)[i]
            IN  "pregunta_id" \notin DOMAIN a => PositionalMatch(a)

\* the same statement on the templates whose questions all have an orden
C24_PositionalMatchAllOrdered ==
    (Done /\ \A q \in DOMAIN Preguntas : Preguntas[q].orden # PyNone) =>
        \A i \in DOMAIN AnswersOf(ocr_responses) :
            LET a == AnswersOf(ocr_responses)[i]
            IN  "pregunta_id" \notin DOMAIN a => PositionalMatch(a)

\* an answer holding only a value, emitted under the open question that has
\* no orden
C24_AbsentOrdenMatched ==
    /\ Done
    /\ AnswersOf(ocr_responses) = <<[respuesta |-> PyS(S_hola)]>>
    /\ api_responses =
          Return(<<[preguntaId |-> PyS(<<"q", "3">>), texto |-> PyS(S_hola)]>>)

\* C25: an answer whose raw value is missing, null, an empty string or an
\* empty list produces no response whatever question it resolves to, and the
\* outcome of the call is that of the input without it.
C25_EmptyValueSkipped ==
    Done =>
        \A i \in DOMAIN AnswersOf(ocr_responses) :
            ~NonEmpty(AnswersOf(ocr_responses)[i]) => Isolated(i)

\* an answer with an empty value that resolves to a question, beside an
\* answer that is emitted
C25_Witness ==
    /\ Done
    /\ ~api_responses.raised
    /\ Len(api_responses.value) = 1
    /\ Len(AnswersOf(ocr_responses)) = 2
    /\ \E i \in 1..2 :
          LET a == AnswersOf(ocr_responses)[i]
          IN  /\ "respuesta" \in DOMAIN a
              /\ a.respuesta \in {PyNone, PyS(<<>>), PyL(<<>>)}
              /\ FindPreguntaTemplate(a, Preguntas) # 0

\* C29: for a resolved question whose type is neither 'abierta' nor
\* 'completar' and whose option list is empty, no response is emitted for
\* any answer value, and the call does not raise on that answer.
C29_OptionlessChoiceEmitsNothing ==
    Done =>
        \A i \in DOMAIN AnswersOf(ocr_responses) :
            LET a == AnswersOf(ocr_responses)[i]
                found == FindPreguntaTemplate(a, Preguntas)
                p == Preguntas[found]
            IN  (found # 0 /\ IsChoice(p) /\ p.opciones = <<>>) =>
                    /\ MapPregunta(a, Preguntas) = Return(<<>>)
                    /\ Isolated(i)

\* the numeric answer "7" to the numeric question without options: nothing
\* is returned
C29_Witness ==
    /\ Done
    /\ Len(Preguntas) >= 2
    /\ Lower(Preguntas[2].tipo.s) = <<"n", "u", "m", "e", "r", "i", "c", "a">>
    /\ Preguntas[2].opciones = <<>>
    /\ Len(AnswersOf(ocr_responses)) = 1
    /\ FindPreguntaTemplate(AnswersOf(ocr_responses)[1], Preguntas) = 2
    /\ Respuesta(AnswersOf(ocr_responses)[1]) = PyS(<<"7">>)
    /\ api_responses = Return(<<>>)

\* C26: for every payload, extract_entrega_id returns None or a string that
\* is a canonical UUID or 10 to 50 letters, digits, hyphens and underscores.
C26_ExtractedIdentifierShape ==
    Extracted =>
        \/ entrega_id = PyNone
        \/ entrega_id.t = "str" /\ ValidIdentifier(entrega_id.s)

\* a payload that is not of that shape as a whole (it holds a line break or a
\* path separator) from which an identifier is returned
C26_Witness ==
    /\ Extracted
    /\ ~ValidIdentifier(qr_data)
    /\ \E k \in 1..Len(qr_data) : qr_data[k] \notin IdChars
    /\ entrega_id # PyNone
    /\ entrega_id.s # qr_data

(***************************************************************************)
(* Properties of the orchestration entry points, checked under SpecRun     *)
(***************************************************************************)

Returned == pc = "returned"

\* the symbols of an image whose payload holds an identifier
Bearing(image) ==
    SelectSeq(image, LAMBDA sy : extract_entrega_id(sy.data) # PyNone)

\* several symbols, each with a bounding box, no two of the same area
SeveralDistinctAreas(syms) ==
    /\ Len(syms) >= 2
    /\ \A i \in 1..Len(syms) : syms[i].bbox # PyNone
    /\ \A i, j \in 1..Len(syms) : i # j => Area(syms[i]) # Area(syms[j])

\* the identifier of the symbol of the largest area
LargestIdentifier(syms) ==
    LET i == CHOOSE i \in 1..Len(syms) :
                \A j \in 1..Len(syms) : Area(syms[j]) <= Area(syms[i])
    IN  extract_entrega_id(syms[i].data)

\* C11: when several identifier-bearing symbols of distinct bounding-box
\* areas are detected, the identifier selected is that of the symbol of the
\* largest area, both by find_best_entrega_qr and as the identifier that
\* process_survey_image uses for the run.
C11_LargestAreaSelected ==
    SeveralDistinctAreas(Bearing(image_qrs)) =>
        /\ (entry = "find_best" /\ Returned) =>
              result.entrega_id = LargestIdentifier(Bearing(image_qrs))
        /\ (entry = "image" /\ entrega_id # PyNone) =>
              entrega_id = LargestIdentifier(Bearing(image_qrs))

\* C11 for find_best_entrega_qr alone: the selector returns the identifier of
\* the symbol of the largest area.
C11_FindBestLargestArea ==
    (entry = "find_best" /\ Returned /\ SeveralDistinctAreas(Bearing(image_qrs))) =>
        result.entrega_id = LargestIdentifier(Bearing(image_qrs))

\* the stages a run entered, in order
Stages == SelectSeq(calls, LAMBDA c : c # "raise")

ImageStages == <<"qr_scan", "api_get", "gemini_ocr", "format", "api_post">>

IsPrefix(a, b) == Len(a) <= Len(b) /\ a = SubSeq(b, 1, Len(a))

\* the run returned a failure naming stage k, having entered no later stage
HaltedAt(k) ==
    /\ Returned
    /\ Stages = SubSeq(ImageStages, 1, k)
    /\ posted = <<>>
    /\ result.success = FALSE
    /\ "error" \in DOMAIN result
    /\ result.step = ImageStages[k]

QrScanFailed == qr_result # Pending /\ (~qr_result.success \/ qr_result.entrega_qrs = <<>>)
FetchFailure == template_result # PyNone /\ ~template_result.success
ExtractionFailed == ocr_result # Pending /\ ~Get(ocr_result, "success", FALSE)

ShortCircuit ==
    entry = "image" =>
        /\ IsPrefix(Stages, ImageStages)
        /\ QrScanFailed => HaltedAt(1)
        /\ FetchFailure => HaltedAt(2)
        /\ ExtractionFailed => HaltedAt(3)

\* C12: in process_survey_image the stages run in the order QR scan, template
\* fetch, AI extraction, reconciliation, submission; when QR scan, template
\* fetch or AI extraction fails the run halts there, no later stage is
\* entered (no submission), and the result is success:false with an error and
\* the step of the failed stage; nothing runs after the return.
C12_ShortCircuit ==
    /\ []ShortCircuit
    /\ [][pc # "returned"]_vars

\* a run halted by a failed extraction
C12_Witness ==
    /\ entry = "image" /\ ExtractionFailed /\ HaltedAt(3)
    /\ calls = <<"qr_scan", "api_get", "gemini_ocr">>

ReturnsTagged ==
    (entry = "image" /\ Returned) =>
        /\ "success" \in DOMAIN result
        /\ result.success \in BOOLEAN
        /\ ("raise" \in Range(calls)) => result.success = FALSE

\* The next step of an image run that has not returned: the stage its
\* position names can be taken.  The reconciliation stage has no guard but
\* its position, and its outcome is a function of the state.
CanStep ==
    \/ pc = "qr_scan" /\ ENABLED QrScan
    \/ pc = "api_get" /\ ENABLED ApiGet
    \/ pc = "gemini_ocr" /\ ENABLED GeminiOcr
    \/ pc = "format"
    \/ pc = "api_post" /\ ENABLED ApiPost
    \/ pc = "except" /\ ENABLED Except

\* C13: process_survey_image always ends by returning a result with a
\* boolean success field, whatever the collaborators return or raise, and a
\* raised exception yields success:false: a run that has not returned can
\* always take its next step, and a run that has returned is tagged.
C13_NoExceptionEscapes ==
    /\ ReturnsTagged
    /\ entry = "image" => (Returned \/ CanStep)

C13_Witness ==
    /\ entry = "image" /\ Returned
    /\ calls = <<"qr_scan", "api_get", "gemini_ocr", "format", "raise">>
    /\ result.success = FALSE

\* C17: every success:false result of process_survey_image, of
\* process_survey_with_known_id and of process_audio_survey_complete carries
\* a step field.
C17_FailureCarriesStep ==
    (entry \in {"image", "known_id", "audio"} /\ Returned /\ ~result.success) =>
        "step" \in DOMAIN result

\* C17 for process_survey_image alone.
C17_ImageFailureCarriesStep ==
    (entry = "image" /\ Returned /\ ~result.success) => "step" \in DOMAIN result

\* QR scan, template fetch and AI extraction of an image run succeeded
ThreeStagesSucceeded ==
    /\ entry = "image" /\ Returned
    /\ qr_result # Pending /\ ~QrScanFailed
    /\ Get(template_result, "success", FALSE)
    /\ Get(ocr_result, "success", FALSE)

SuccessReported ==
    /\ result.success = TRUE
    /\ result.entrega_id = entrega_id
    /\ result.encuesta = survey_template.encuesta
    /\ Len(posted) = 1
    /\ result.responses_sent = Len(posted[1])
    /\ result.save_result = save_result

\* C18: whenever QR scan, template fetch and AI extraction succeed,
\* process_survey_image returns success:true with the entry id, the survey
\* metadata, responses_sent equal to the number of responses handed to the
\* submit call, and the submit result, also when the submission is rejected.
C18_SuccessAfterExtraction == ThreeStagesSucceeded => SuccessReported

\* C18 for the runs in which nothing raised.
C18_SuccessUnlessRaised ==
    (ThreeStagesSucceeded /\ "raise" \notin Range(calls)) => SuccessReported

Count(seq, x) == Len(SelectSeq(seq, LAMBDA c : c = x))

SingleFetchAndSubmit ==
    /\ Count(calls, "api_get") <= 1
    /\ template_result # PyNone => Count(calls, "api_get") = 1
    /\ Count(calls, "api_post") <= 1
    /\ \A c \in Range(Stages) : Count(calls, c) = 1
    /\ survey_template # PyNone =>
          survey_template = process_survey_template(template_result)

\* C20: a run of process_survey_image or of process_audio_survey_complete
\* issues exactly one template fetch when it reaches that stage and at most
\* one submission, repeats no external call, and reconciles against the
\* template of that fetch.
C20_SingleFetchAndSubmit ==
    entry \in {"image", "audio"} => SingleFetchAndSubmit

\* C20 for process_survey_image alone.
C20_ImageSingleFetchAndSubmit == entry = "image" => SingleFetchAndSubmit

\* the identifier that process_survey_image fetches the template for and
\* submits under has that shape (checked under SpecRun)
C26_ImageRunIdentifierShape ==
    (entry = "image" /\ "api_get" \in Range(calls)) =>
        /\ entrega_id.t = "str" /\ ValidIdentifier(entrega_id.s)
        /\ Returned /\ "entrega_id" \in DOMAIN result =>
              result.entrega_id = entrega_id

\* the position of the first call c in the log (0: never called)
FirstCall(c) == FirstIndex(LAMBDA k : calls[k] = c, Len(calls))

AudioRecordAfterSubmission ==
    entry = "audio" =>
        /\ Count(calls, "db_insert") <= 1
        /\ "db_insert" \in Range(calls) =>
              /\ FirstCall("api_post") # 0
              /\ FirstCall("api_post") < FirstCall("db_insert")
              /\ Get(save_result, "success", FALSE)
        /\ (Returned /\ ~result.success) => "db_insert" \notin Range(calls)

\* C27: process_audio_survey_complete calls the audio record insertion only
\* after the submission of that run returned success, at most once, and as
\* the step that follows the submission; a run that ends with a failure
\* result has not called it.
C27_AudioRecordAfterSubmission ==
    /\ []AudioRecordAfterSubmission
    /\ [][(entry = "audio" /\ pc' = "db_insert") =>
             (pc = "api_post" /\ Get(save_result', "success", FALSE))]_vars

\* an audio run that has inserted its record and returned
C27_Witness ==
    /\ entry = "audio" /\ Returned
    /\ result.success
    /\ calls[Len(calls)] = "db_insert"
    /\ Count(calls, "api_post") = 1

\* an audio run whose submission was rejected: a failure, nothing inserted
C27_RejectedSubmission ==
    /\ entry = "audio" /\ Returned
    /\ ~result.success
    /\ calls # <<>> /\ calls[Len(calls)] = "api_post"

\* the reconciliation of an image run has returned an empty list
EmptyReconciliation ==
    /\ entry = "image"
    /\ "format" \in Range(calls) /\ "raise" \notin Range(calls)
    /\ api_responses = Return(<<>>)

\* C30: when the reconciliation returns an empty list, process_survey_image
\* goes on to the submission, submits once with an empty list, and returns
\* success:true with responses_sent = 0.
C30_EmptyReconciliationSubmitted ==
    EmptyReconciliation =>
        /\ ~Returned => (pc = "api_post" /\ posted = <<>>)
        /\ Returned =>
              /\ posted = << <<>> >>
              /\ Count(calls, "api_post") = 1
              /\ result.success
              /\ result.responses_sent = 0

\* an image run whose extraction succeeded with nothing to reconcile, and
\* which submitted the empty list and returned
C30_Witness ==
    /\ EmptyReconciliation /\ Returned
    /\ ocr_result.success
    /\ posted = << <<>> >>
    /\ result.success /\ result.responses_sent = 0

(***************************************************************************)
(* Properties of POST /ocr/encuesta, checked under SpecEndpoint            *)
(***************************************************************************)

Responded == pc = "responded"

\* the upload is rejected: its content type is no image type, or its bytes
\* encode no picture
RejectedUpload ==
    \/ file.content_type.t # "str"
    \/ ~StartsWith(file.content_type.s, S_image_slash)
    \/ ~file.contents.decodable

\* C28: a rejected upload (content type not an image, or bytes that cannot
\* be decoded) is answered with status 400, and process_survey_image is
\* never invoked for it.
C28_RejectedUploadAnswered400 ==
    RejectedUpload =>
        /\ calls = <<>> /\ result = Pending
        /\ Responded => response.status_code = 400

\* what holds instead: the orchestrator is not invoked, and the answer is 500
C28_RejectedUploadAnswered500 ==
    RejectedUpload =>
        /\ calls = <<>> /\ result = Pending
        /\ Responded => response.status_code = 500

\* a text upload that has been answered
C28_RejectedAnswered ==
    /\ Responded
    /\ file.content_type.t = "str"
    /\ ~StartsWith(file.content_type.s, S_image_slash)
    /\ response.status_code = 500

(***************************************************************************)
(* Properties of two concurrent runs, checked under SpecPair               *)
(***************************************************************************)

\* the reconciliation outcome of run r, from its own extraction and template
ReconciledAlone(r) ==
    format_responses_for_api(extracted_answers(r.entry, r.ocr_result).value,
                             process_survey_template(r.template_result))

\* what process_survey_image returns for the collaborator responses that
\* run r received, when it runs alone
ResultAlone(r) ==
    IF qr_scan_failed(r.qr_result) THEN qr_scan_failure
    ELSE IF api_get_failed(r.template_result)
    THEN api_get_failure(r.entry, r.qr_result.entrega_qrs[1].entrega_id, PyNone)
    ELSE IF process_survey_template_raises(r.template_result)
    THEN on_exception(r.entry, r.qr_result.entrega_qrs[1].entrega_id)
    ELSE IF gemini_ocr_failed(r.ocr_result)
    THEN gemini_ocr_failure(r.entry, r.qr_result.entrega_qrs[1].entrega_id)
    ELSE IF ReconciledAlone(r).raised
    THEN on_exception(r.entry, r.qr_result.entrega_qrs[1].entrega_id)
    ELSE image_success(r.qr_result.entrega_qrs[1].entrega_id,
                       process_survey_template(r.template_result),
                       ReconciledAlone(r).value, r.save_result)

\* every local of run r is determined by the image of r and by the answers
\* to the calls of r
OwnInputsOnly(r) ==
    /\ r.image_qrs = PairImages[r.id]
    /\ r.qr_result # Pending =>
          r.qr_result \in {detect_qr_codes(d) : d \in Decoded(PairImages[r.id])}
    /\ r.survey_template \in {PyNone, process_survey_template(r.template_result)}
    /\ "format" \in Range(r.calls) => r.api_responses = ReconciledAlone(r)
    /\ r.posted = (IF "api_post" \in Range(r.calls)
                   THEN <<ReconciledAlone(r).value>> ELSE <<>>)
    /\ r.pc = "returned" => r.result = ResultAlone(r)

\* C21: under every interleaving of the stages of two runs of
\* process_survey_image, the result of each run and the payload it submits
\* are those of the run alone on its own image and its own collaborator
\* responses; a step of one run leaves the locals of the other untouched;
\* the reconciliation leaves the template and the extraction result as they
\* were, and the QR scan leaves the image as it was.
C21_RunsIndependent ==
    /\ [](OwnInputsOnly(Suspended(3 - other.id)) /\ OwnInputsOnly(other))
    /\ [][other'.id = other.id => other' = other]_vars
    /\ [][(pc = "format" /\ other'.id = other.id) =>
             (survey_template' = survey_template /\ ocr_result' = ocr_result)]_vars
    /\ [][(pc = "qr_scan" /\ other'.id = other.id) => image_qrs' = image_qrs]_vars

\* both runs have returned, one with a success under its own identifier
\* after submitting its own payload, the other with a failure of its own
\* template fetch
C21_Witness ==
    /\ pc = "returned" /\ other.pc = "returned"
    /\ result.success /\ result.entrega_id = PyS(K_uuid)
    /\ posted # <<>> /\ posted[1] # <<>>
    /\ ~other.result.success /\ other.result.step = "api_get"
    /\ other.result.entrega_id = PyS(K_token)
    /\ other.posted = <<>>

====
